---- MODULE Spec2Model ----
(***************************************************************************)
(* Slot-tracking bitmaps (bitmap.h) and the arenas built on them           *)
(* (arena_allocator.cpp): Arena, ArenaSpinLock, ArenaLockFree,             *)
(* ArenaLockFreeHint, ArenaNoHint, ArenaNoHintSpinLock.                    *)
(*                                                                         *)
(* A 64-bit bitmap word is the set of its bit positions that are 1         *)
(* (1 = free, 0 = allocated).  A size_t is four 16-bit limbs, least        *)
(* significant first, so that the machine's wrap-around at 2^64 and the    *)
(* narrowing to uint32_t are computed as the machine computes them.        *)
(***************************************************************************)
EXTENDS Integers, Sequences, FiniteSets, TLC

\* ------------------------------------------------------------------------
\* Bounds of the model
\* ------------------------------------------------------------------------

\* Most words an arena of the operational specifications is constructed with.
MaxWords == 2

\* Calls (allocate or free) the client threads make in one behaviour.
MaxCalls == 3

\* Calls made in one behaviour in which a client passes arbitrary arguments.
MaxAnyCalls == 2

\* Spurious failures of compare_exchange_weak in one behaviour.
MaxSpurious == 1

\* The client threads.
Threads == {1, 2}

\* Bits of every word whose slots the clients free (inputs of free).
LiveBits == {0, 63}

\* The slot size the operational arenas are constructed with, and the address
\* mmap returns for them.
PageSize == 2

BaseAddr == 16

\* ------------------------------------------------------------------------
\* Program constants
\* ------------------------------------------------------------------------

WORD_SHIFT == 6

WORD_LENGTH == 64

WORD_MASK == 63

MAX_IDX == 63

FULLY_ALLOCATED == {}

FULLY_FREE == 0 .. 63

\* NULL, and slot_idx == -1 of allocate_one.
NULL == 0

NoSlot == -1

\* ------------------------------------------------------------------------
\* size_t: 64 bits as four limbs of 16 bits, least significant limb first
\* ------------------------------------------------------------------------

Limb == 65536

U64(n) == <<n % Limb, (n \div Limb) % Limb, 0, 0>>

U64Max == <<Limb - 1, Limb - 1, Limb - 1, Limb - 1>>

\* A value below 2^31 as a number.
U64ToNat(a) == a[2] * Limb + a[1]

\* a + b modulo 2^64.
U64Add(a, b) ==
    LET s1 == a[1] + b[1]
        s2 == a[2] + b[2] + (s1 \div Limb)
        s3 == a[3] + b[3] + (s2 \div Limb)
        s4 == a[4] + b[4] + (s3 \div Limb)
    IN  <<s1 % Limb, s2 % Limb, s3 % Limb, s4 % Limb>>

\* a - b modulo 2^64.
U64Sub(a, b) ==
    LET d1 == a[1] - b[1]
        d2 == a[2] - b[2] - (IF d1 < 0 THEN 1 ELSE 0)
        d3 == a[3] - b[3] - (IF d2 < 0 THEN 1 ELSE 0)
        d4 == a[4] - b[4] - (IF d3 < 0 THEN 1 ELSE 0)
    IN  <<d1 % Limb, d2 % Limb, d3 % Limb, d4 % Limb>>

\* a / d, unsigned division by a number 1 <= d < 2^15.
U64Div(a, d) ==
    LET q4 == a[4] \div d
        r4 == a[4] % d
        q3 == (r4 * Limb + a[3]) \div d
        r3 == (r4 * Limb + a[3]) % d
        q2 == (r3 * Limb + a[2]) \div d
        r2 == (r3 * Limb + a[2]) % d
        q1 == (r2 * Limb + a[1]) \div d
    IN  <<q1, q2, q3, q4>>

\* a % d for 1 <= d < 2^15.
U64Mod(a, d) ==
    LET r4 == a[4] % d
        r3 == (r4 * Limb + a[3]) % d
        r2 == (r3 * Limb + a[2]) % d
    IN  (r2 * Limb + a[1]) % d

\* a * m modulo 2^64 for 0 <= m < 2^15.
U64Mul(a, m) ==
    LET p1 == a[1] * m
        p2 == a[2] * m + (p1 \div Limb)
        p3 == a[3] * m + (p2 \div Limb)
        p4 == a[4] * m + (p3 \div Limb)
    IN  <<p1 % Limb, p2 % Limb, p3 % Limb, p4 % Limb>>

\* a < b, unsigned.
U64Less(a, b) ==
    \/ a[4] < b[4]
    \/ a[4] = b[4] /\ a[3] < b[3]
    \/ a[4] = b[4] /\ a[3] = b[3] /\ a[2] < b[2]
    \/ a[4] = b[4] /\ a[3] = b[3] /\ a[2] = b[2] /\ a[1] < b[1]

\* The implicit conversion size_t -> uint32_t: the low 32 bits.
ToUint32(a) == <<a[1], a[2], 0, 0>>

\* std::atomic_int16_t: two's complement wrap-around to [-32768, 32767].
ToInt16(x) == ((x + 32768) % 65536) - 32768

\* ------------------------------------------------------------------------
\* Bit operations on numbers and on words
\* ------------------------------------------------------------------------

RECURSIVE Pow2(_)
Pow2(k) == IF k = 0 THEN 1 ELSE 2 * Pow2(k - 1)

\* x >> k and x << k on values that stay below 2^31.
ShiftRight(x, k) == x \div Pow2(k)

ShiftLeft(x, k) == x * Pow2(k)

RECURSIVE BitAnd(_, _)
BitAnd(a, b) ==
    IF a = 0 \/ b = 0 THEN 0
    ELSE 2 * BitAnd(a \div 2, b \div 2) + (IF a % 2 = 1 /\ b % 2 = 1 THEN 1 ELSE 0)

RECURSIVE BitOr(_, _)
BitOr(a, b) ==
    IF a = 0 THEN b
    ELSE IF b = 0 THEN a
    ELSE 2 * BitOr(a \div 2, b \div 2) + (IF a % 2 = 1 \/ b % 2 = 1 THEN 1 ELSE 0)

MaxOf(S) == CHOOSE x \in S : \A y \in S : y <= x

\* std::countl_zero of a 64-bit word.
countl_zero(word) == IF word = {} THEN WORD_LENGTH ELSE MAX_IDX - MaxOf(word)

\* word & (1ULL << bit_idx) != 0
TestBit(word, bit_idx) == bit_idx \in word

\* word & ~(1ULL << bit_idx)
ClearBit(word, bit_idx) == word \ {bit_idx}

\* word | (1ULL << bit_idx)
SetBit(word, bit_idx) == word \cup {bit_idx}

\* ------------------------------------------------------------------------
\* bitmap.h: index conversions (the same in Bitmap, BitmapLockFree,
\* BitmapLockFreeHint and BitmapNoHint)
\* ------------------------------------------------------------------------

get_word_and_bit_index_from_slot_index(slot_idx) ==
    <<ShiftRight(slot_idx, WORD_SHIFT), BitAnd(slot_idx, WORD_MASK)>>

\* A faulty conversion, as in bitmap.cpp: word_idx >> WORD_SHIFT | bit_idx.
SlotIndexShiftedRight(word_idx, bit_idx) ==
    BitOr(ShiftRight(word_idx, WORD_SHIFT), bit_idx)

get_slot_index_from_word_and_bit_index(word_idx, bit_idx) ==
    BitOr(ShiftLeft(word_idx, WORD_SHIFT), bit_idx)

\* A faulty choice of bit: the lowest free bit (std::countr_zero).
LowestBit(word) == IF word = {} THEN WORD_LENGTH ELSE CHOOSE b \in word : \A c \in word : b <= c

\* int bit_idx = MAX_IDX - std::countl_zero(word)
HighestBit(word) == MAX_IDX - countl_zero(word)

\* The range check on bit_idx: if (bit_idx < 0 || bit_idx > 63) continue/break
BitIdxValid(bit_idx) == ~(bit_idx < 0 \/ bit_idx > 63)

\* ------------------------------------------------------------------------
\* bitmap.h: the locked bitmaps, Bitmap (with hint) and BitmapNoHint
\* ------------------------------------------------------------------------

\* One scanning loop: the first word_idx in [from, to) whose word has a free
\* bit with a valid index, or NoSlot.
ScanWords(ws, from, to) ==
    LET hits == {i \in from .. (to - 1) :
                    ws[i] # FULLY_ALLOCATED /\ BitIdxValid(HighestBit(ws[i]))}
    IN  IF hits = {} THEN NoSlot
        ELSE CHOOSE i \in hits : \A j \in hits : i <= j

\* The hint stored after a claim in word_idx; word is the local copy read
\* before the bit was cleared.
HintAfterClaim(word, word_idx, nw) ==
    IF word = FULLY_ALLOCATED THEN (word_idx + 1) % nw ELSE word_idx

\* What a claim in word_idx does: clear the highest free bit, store the hint.
ClaimIn(ws, hint, nw, word_idx, hinted) ==
    LET word    == ws[word_idx]
        bit_idx == HighestBit(word)
    IN  [slot  |-> get_slot_index_from_word_and_bit_index(word_idx, bit_idx),
         words |-> [ws EXCEPT ![word_idx] = ClearBit(@, bit_idx)],
         hint  |-> IF hinted THEN HintAfterClaim(word, word_idx, nw) ELSE hint]

\* A faulty Bitmap::allocate_one: the second loop, over [0, hint), is missing.
BitmapAllocateOneNoWrap(ws, hint, nw) ==
    LET first == ScanWords(ws, hint, nw)
    IN  IF first = NoSlot
        THEN [slot |-> NoSlot, words |-> ws, hint |-> hint]
        ELSE ClaimIn(ws, hint, nw, first, TRUE)

\* Bitmap::allocate_one: scan from the hint to the end, then from 0 to the hint.
BitmapAllocateOne(ws, hint, nw) ==
    LET first  == ScanWords(ws, hint, nw)
        second == IF first # NoSlot THEN first ELSE ScanWords(ws, 0, hint)
    IN  IF second = NoSlot
        THEN [slot |-> NoSlot, words |-> ws, hint |-> hint]
        ELSE ClaimIn(ws, hint, nw, second, TRUE)

\* A faulty BitmapNoHint::allocate_one: it takes the last word with a free slot.
BitmapNoHintAllocateOneFromEnd(ws, hint, nw) ==
    LET hits == {i \in 0 .. (nw - 1) : ws[i] # FULLY_ALLOCATED}
    IN  IF hits = {}
        THEN [slot |-> NoSlot, words |-> ws, hint |-> hint]
        ELSE ClaimIn(ws, hint, nw, MaxOf(hits), FALSE)

\* BitmapNoHint::allocate_one: scan from word 0.
BitmapNoHintAllocateOne(ws, hint, nw) ==
    LET first == ScanWords(ws, 0, nw)
    IN  IF first = NoSlot
        THEN [slot |-> NoSlot, words |-> ws, hint |-> hint]
        ELSE ClaimIn(ws, hint, nw, first, FALSE)

\* Bitmap::allocate_many and BitmapNoHint::allocate_many: return -1.
BitmapAllocateMany(ws, hint, n) ==
    [slot |-> NoSlot, words |-> ws, hint |-> hint]

\* A faulty Bitmap::free_slot: the hint is left where it was.
BitmapFreeSlotHintKept(ws, hint, slot_idx, hinted) ==
    LET wb == get_word_and_bit_index_from_slot_index(slot_idx)
    IN  [rc    |-> 0,
         words |-> [ws EXCEPT ![wb[1]] = SetBit(@, wb[2])],
         hint  |-> hint]

\* A faulty Bitmap::free_slot: the hint is set to the word after the slot's.
BitmapFreeSlotHintNext(ws, hint, slot_idx, hinted) ==
    LET wb == get_word_and_bit_index_from_slot_index(slot_idx)
    IN  [rc    |-> 0,
         words |-> [ws EXCEPT ![wb[1]] = SetBit(@, wb[2])],
         hint  |-> IF hinted THEN wb[1] + 1 ELSE hint]

\* Bitmap::free_slot and BitmapNoHint::free_slot: set the bit whatever it was;
\* Bitmap also points the hint at the word.  Both return 0.
BitmapFreeSlot(ws, hint, slot_idx, hinted) ==
    LET wb == get_word_and_bit_index_from_slot_index(slot_idx)
    IN  [rc    |-> 0,
         words |-> [ws EXCEPT ![wb[1]] = SetBit(@, wb[2])],
         hint  |-> IF hinted THEN wb[1] ELSE hint]

\* ------------------------------------------------------------------------
\* bitmap.h: the lock-free bitmaps, one atomic operation at a time
\* ------------------------------------------------------------------------

\* num_words_is_pow2 = (num_words & (num_words - 1)) == 0
NumWordsIsPow2(nw) == BitAnd(nw, nw - 1) = 0

\* A faulty start: the bitmask is used whatever num_words is.
HintStartMasked(old, nw) == BitAnd(old, nw - 1)

\* size_t hint = num_words_is_pow2 ? (old & (num_words - 1)) : (old % num_words)
HintStart(old, nw) == IF NumWordsIsPow2(nw) THEN BitAnd(old, nw - 1) ELSE old % nw

\* A faulty CAS: a plain store, which succeeds whatever the word holds.
CasBlindStore(current, expected, spuriousFail) == TRUE

\* compare_exchange_weak(observed, new_word): succeeds only if the word still
\* holds the expected value (and the hardware does not fail it spuriously).
CasSucceeds(current, expected, spuriousFail) == current = expected /\ ~spuriousFail

\* fetch_or(1ULL << bit_idx) of free_slot; the lock-free free_slot returns 0.
LockFreeFreeSlot(ws, slot_idx) ==
    LET wb == get_word_and_bit_index_from_slot_index(slot_idx)
    IN  [rc |-> 0, words |-> [ws EXCEPT ![wb[1]] = SetBit(@, wb[2])]]

\* ------------------------------------------------------------------------
\* arena_allocator.cpp: construction
\* ------------------------------------------------------------------------

Variants ==
    {"Arena", "ArenaSpinLock", "ArenaLockFree", "ArenaLockFreeHint",
     "ArenaNoHint", "ArenaNoHintSpinLock"}

\* bitmap_mutex (std::lock_guard) and bitmap_spinlock (test_and_set loop).
MutexVariants == {"Arena", "ArenaNoHint"}

SpinVariants == {"ArenaSpinLock", "ArenaNoHintSpinLock"}

LockedVariants == MutexVariants \cup SpinVariants

LockFreeVariants == {"ArenaLockFree", "ArenaLockFreeHint"}

\* The arenas whose bitmap keeps allocation_hint.
HintedVariants == {"Arena", "ArenaSpinLock", "ArenaLockFreeHint"}

\* A faulty constructor, as in bitmap.cpp: words.assign(num_words, 1).
BitmapCtorOnlyBitZero(num_slots32) ==
    IF U64Mod(num_slots32, WORD_LENGTH) # 0
    THEN [ok |-> FALSE]
    ELSE [ok |-> TRUE,
          num_slots |-> num_slots32,
          num_words |-> U64Div(num_slots32, WORD_LENGTH),
          fill |-> {0},
          allocation_hint |-> 0,
          cas_retries |-> 0]

\* The bitmap constructors: throw unless num_slots % 64 == 0, else
\* num_slots / 64 words, every one FULLY_FREE; num_slots is a uint32_t.
BitmapCtor(num_slots32) ==
    IF U64Mod(num_slots32, WORD_LENGTH) # 0
    THEN [ok |-> FALSE]
    ELSE [ok |-> TRUE,
          num_slots |-> num_slots32,
          num_words |-> U64Div(num_slots32, WORD_LENGTH),
          fill |-> FULLY_FREE,
          allocation_hint |-> 0,
          cas_retries |-> 0]

\* size_t num_slots = (capacity + page_size - 1) / page_size, raised to 64 and
\* rounded up to a multiple of 64.
CtorNumSlots(capacity, page_size) ==
    LET n0 == U64Div(U64Sub(U64Add(capacity, U64(page_size)), U64(1)), page_size)
        n1 == IF U64Less(n0, U64(WORD_LENGTH)) THEN U64(WORD_LENGTH) ELSE n0
    IN  U64Mul(U64Div(U64Sub(U64Add(n1, U64(WORD_LENGTH)), U64(1)), WORD_LENGTH),
               WORD_LENGTH)

\* mmap(NULL, length, ...): EINVAL for a length of 0; otherwise the operating
\* system decides (mmapOk).
MmapSucceeds(length, mmapOk) == length # U64(0) /\ mmapOk

\* The six arena constructors (they differ in the bitmap type only): the
\* fields of the constructed arena, or ok = FALSE when mmap failed or the
\* bitmap constructor threw.
ArenaCtor(capacity, page_size, mmapOk) ==
    LET num_slots == CtorNumSlots(capacity, page_size)
        cap       == U64Mul(num_slots, page_size)
        bitmap    == BitmapCtor(ToUint32(num_slots))
    IN  IF ~MmapSucceeds(cap, mmapOk) \/ ~bitmap.ok
        THEN [ok |-> FALSE]
        ELSE [ok |-> TRUE,
              capacity |-> cap,
              slot_size |-> page_size,
              bitmap |-> bitmap,
              slots_in_use |-> 0]

\* ------------------------------------------------------------------------
\* arena_allocator.cpp: the argument checks of allocate and free
\* ------------------------------------------------------------------------

\* A faulty slots_required: the division rounds down.
SlotsRequiredFloor(size, slotSize) == U64Div(size, slotSize)

\* A faulty slots_required: a quotient of 0 is taken for one slot, so that a
\* sum that wrapped around counts as a single-slot request.
SlotsRequiredAtLeastOne(size, slotSize) ==
    LET q == U64Div(U64Sub(U64Add(size, U64(slotSize)), U64(1)), slotSize)
    IN  IF q = U64(0) THEN U64(1) ELSE q

\* size_t slots_required = (size + slot_size - 1) / slot_size
SlotsRequired(size, slotSize) ==
    U64Div(U64Sub(U64Add(size, U64(slotSize)), U64(1)), slotSize)

\* A faulty check of allocate: a size of 0 is let through.
AllocateRejectsNothing(size) == FALSE

\* allocate: if (size == 0) return NULL
AllocateRejects(size) == size = U64(0)

\* Faulty checks of free: the alignment check is missing.
FreeRejectsNoAlignment(b, cap, slotSize, ptr, size) ==
    \/ ptr = NULL \/ size = U64(0)
    \/ ptr < b \/ ptr >= b + cap
    \/ SlotsRequired(size, slotSize) # U64(1)

\* free: the checks before the bitmap is touched; TRUE when free returns early.
FreeRejects(b, cap, slotSize, ptr, size) ==
    \/ ptr = NULL \/ size = U64(0)
    \/ ptr < b \/ ptr >= b + cap
    \/ (ptr - b) % slotSize # 0
    \/ SlotsRequired(size, slotSize) # U64(1)

\* size_t start_slot = offset / slot_size
StartSlot(b, slotSize, ptr) == (ptr - b) \div slotSize

\* allocation_base = base + slot_size * slot_idx
SlotPtr(b, slotSize, slot_idx) == b + slotSize * slot_idx

\* ------------------------------------------------------------------------
\* State
\* ------------------------------------------------------------------------

VARIABLES
    variant,          \* which of the six arena types this arena is
    ctor,             \* the constructor call: its arguments and its outcome
    base,             \* Arena::base
    capacity,         \* Arena::capacity
    slot_size,        \* Arena::slot_size
    num_slots,        \* bitmap->num_slots
    num_words,        \* bitmap->num_words, words.size()
    words,            \* bitmap->words
    allocation_hint,  \* bitmap->allocation_hint
    cas_retries,      \* bitmap->cas_retries
    slots_in_use,     \* Arena::slots_in_use
    lock,             \* bitmap_mutex / bitmap_spinlock: the holder, or 0
    pc,               \* where each thread is in its call
    loc,              \* each thread's locals of the call in progress
    held,             \* the pointers each thread holds (allocated_pages)
    calls,            \* calls made so far
    spurious,         \* spurious CAS failures so far
    phase,            \* "args", "failed", "constructed", "filling", "draining", "running"
    misused,          \* some free was not a free of a held pointer and its size
    streak,           \* pointers returned by allocate since the last free
    count0,           \* slots_in_use when the client threads started
    justFreed,        \* <<t, p>>: t alone has just freed p in a full arena
    freedPtrs,        \* pointers released and not claimed again since
    balance,          \* successful allocates minus frees of held pointers
    obs,              \* per call in progress: what the caller could observe
    twin,             \* a second run of the same calls, for comparison
    mem,              \* payload writes: the last to each slot, and who is sure to see it
    tally             \* failed CAS attempts so far, and the threads that have made a call

vars ==
    <<variant, ctor, base, capacity, slot_size, num_slots, num_words, words,
      allocation_hint, cas_retries, slots_in_use, lock, pc, loc, held, calls,
      spurious, phase, misused, streak, count0, justFreed, freedPtrs, balance, obs,
      twin, mem, tally>>

arenaVars ==
    <<variant, ctor, base, capacity, slot_size, num_slots, num_words, twin>>

NoThread == 0

NoJust == <<>>

\* There is no second run.
NoTwin == [mode |-> "off"]

\* No payload has been written.  payload holds the last write <<p, n, t>> to
\* each slot p, by call n of thread t; seen[t] the writes that happen before
\* thread t's next step; rel[w] the writes that happen before the release
\* operations on words[w] so far.
NoMem(nw) ==
    [payload |-> {}, seen |-> [t \in Threads |-> {}], rel |-> [w \in 0 .. (nw - 1) |-> {}]]

\* No CAS has failed and no thread has made a call.
NoTally == [failed |-> 0, callers |-> {}]

\* The locals of a thread that is in no call.
IdleLoc == [op |-> "none"]

NoObs == [ever |-> FALSE, always |-> FALSE, touched |-> FALSE, moved |-> FALSE]

WordIdxs == 0 .. (num_words - 1)

\* Number of bits that are 0, over all words.
ZeroBitsFrom(ws, i, nw) ==
    (nw - i) * WORD_LENGTH - Cardinality(UNION {{j} \X ws[j] : j \in i .. (nw - 1)})

ZeroBits == ZeroBitsFrom(words, 0, num_words)

ArenaFull == {i \in WordIdxs : words[i] # FULLY_ALLOCATED} = {}

PtrOf(slot_idx) == SlotPtr(base, slot_size, slot_idx)

\* The slots whose pointers the clients pass to free.
LiveSlots(nw) == {w * WORD_LENGTH + b : w \in 0 .. (nw - 1), b \in LiveBits}

\* An acquire operation that reads the value of a word: the writes that
\* happen before the release operations whose release sequences the value
\* belongs to happen before what follows.  Every modification of a word is a
\* read-modify-write, so the value belongs to all of them.
Acquire(view, released) == view \cup released

\* A faulty fetch_or: memory_order_relaxed.
ReleaseRelaxed(released, view) == released

\* A release operation on a word.
Release(released, view) == released \cup view

\* Thread t writes the payload of slot p during its call n; the writes it
\* replaces are forgotten.
WritePayload(m, t, p, n) ==
    LET old == {w \in m.payload : w[1] = p}
        new == <<p, n, t>>
    IN  [payload |-> (m.payload \ old) \cup {new},
         seen    |-> [u \in Threads |->
                        IF u = t THEN (m.seen[u] \ old) \cup {new} ELSE m.seen[u] \ old],
         rel     |-> [w \in DOMAIN m.rel |-> m.rel[w] \ old]]

\* ------------------------------------------------------------------------
\* Whole calls of one thread running alone (the driver's warm-up)
\* ------------------------------------------------------------------------

\* BitmapLockFree::allocate_one and BitmapLockFreeHint::allocate_one with no
\* other thread running: every CAS succeeds at its first attempt.
LockFreeAllocateOneAlone(ws, hint, nw, hinted) ==
    LET start  == IF hinted THEN HintStart(hint, nw) ELSE 0
        first  == ScanWords(ws, start, nw)
        second == IF first # NoSlot THEN first ELSE ScanWords(ws, 0, start)
        hint2  == IF hinted THEN hint + 1 ELSE hint
    IN  IF second = NoSlot
        THEN [slot |-> NoSlot, words |-> ws, hint |-> hint2]
        ELSE [ClaimIn(ws, hint, nw, second, FALSE) EXCEPT !.hint = hint2]

AllocateOneAlone(v, ws, hint, nw) ==
    CASE v \in {"Arena", "ArenaSpinLock"} -> BitmapAllocateOne(ws, hint, nw)
      [] v \in {"ArenaNoHint", "ArenaNoHintSpinLock"} -> BitmapNoHintAllocateOne(ws, hint, nw)
      [] v = "ArenaLockFree" -> LockFreeAllocateOneAlone(ws, hint, nw, FALSE)
      [] v = "ArenaLockFreeHint" -> LockFreeAllocateOneAlone(ws, hint, nw, TRUE)

\* allocate(slot_size) run to completion on st = [words, hint, count, got].
AllocateAlone(v, st, nw, b, ss) ==
    LET r == AllocateOneAlone(v, st.words, st.hint, nw)
    IN  IF r.slot = NoSlot
        THEN [st EXCEPT !.hint = r.hint]
        ELSE [words |-> r.words, hint |-> r.hint,
              count |-> ToInt16(st.count + 1),
              got |-> st.got \cup {SlotPtr(b, ss, r.slot)}]

\* free(ptr, slot_size) of an aligned in-range pointer run to completion:
\* the locked arenas look at the bit first, the lock-free ones act on rc.
FreeAlone(v, st, b, ss, ptr) ==
    LET slot == StartSlot(b, ss, ptr)
        wb   == get_word_and_bit_index_from_slot_index(slot)
    IN  IF v \in LockedVariants
        THEN IF TestBit(st.words[wb[1]], wb[2])
             THEN st
             ELSE LET r == BitmapFreeSlot(st.words, st.hint, slot, v \in HintedVariants)
                  IN  [words |-> r.words, hint |-> r.hint,
                       count |-> ToInt16(st.count - 1), got |-> st.got \ {ptr}]
        ELSE LET r == LockFreeFreeSlot(st.words, slot)
             IN  [words |-> r.words, hint |-> st.hint,
                  count |-> IF r.rc = 0 THEN ToInt16(st.count - 1) ELSE st.count,
                  got |-> st.got \ {ptr}]

\* ------------------------------------------------------------------------
\* Initial states: a constructed arena
\* ------------------------------------------------------------------------

\* Requested capacities: the smallest that needs nw words.
CapacityFor(nw) == U64((nw - 1) * WORD_LENGTH * PageSize + 1)

Constructed(v, cap, ps, r) ==
    /\ variant = v
    /\ ctor = [capacity |-> cap, page_size |-> ps, done |-> TRUE, result |-> r]
    /\ base = BaseAddr
    /\ capacity = U64ToNat(r.capacity)
    /\ slot_size = r.slot_size
    /\ num_slots = U64ToNat(r.bitmap.num_slots)
    /\ num_words = U64ToNat(r.bitmap.num_words)
    /\ words = [i \in 0 .. (U64ToNat(r.bitmap.num_words) - 1) |-> r.bitmap.fill]
    /\ allocation_hint = r.bitmap.allocation_hint
    /\ cas_retries = r.bitmap.cas_retries
    /\ slots_in_use = r.slots_in_use
    /\ lock = NoThread
    /\ pc = [t \in Threads |-> "idle"]
    /\ loc = [t \in Threads |-> IdleLoc]
    /\ held = [t \in Threads |-> {}]
    /\ calls = 0
    /\ spurious = 0
    /\ phase = "constructed"
    /\ misused = FALSE
    /\ streak = {}
    /\ count0 = 0
    /\ justFreed = NoJust
    /\ freedPtrs = {}
    /\ balance = 0
    /\ obs = [t \in Threads |-> NoObs]
    /\ twin = NoTwin
    /\ mem = NoMem(U64ToNat(r.bitmap.num_words))
    /\ tally = NoTally

Init ==
    \E v \in Variants, nw \in 1 .. MaxWords :
        Constructed(v, CapacityFor(nw), PageSize,
                    ArenaCtor(CapacityFor(nw), PageSize, TRUE))

\* ------------------------------------------------------------------------
\* The warm-up: before the client threads start, thread 1 alone fills the
\* arena word by word with allocate(slot_size), then frees some of the
\* pointers again, one whole call at a time
\* ------------------------------------------------------------------------

\* The first thread.
Driver == CHOOSE t \in Threads : \A u \in Threads : t <= u

ArenaState ==
    [words |-> words, hint |-> allocation_hint, count |-> slots_in_use,
     got |-> held[Driver]]

\* Every word is either untouched or filled.
WholeWords == {i \in WordIdxs : words[i] \notin {FULLY_FREE, FULLY_ALLOCATED}} = {}

WarmAllocate ==
    /\ phase \in {"constructed", "filling"}
    /\ ~ArenaFull
    /\ LET st == AllocateAlone(variant, ArenaState, num_words, base, slot_size)
       IN  /\ words' = st.words
           /\ allocation_hint' = st.hint
           /\ slots_in_use' = st.count
           /\ held' = [held EXCEPT ![Driver] = st.got]
           /\ streak' = streak \cup (st.got \ held[Driver])
    /\ phase' = "filling"
    /\ UNCHANGED <<arenaVars, tally, mem, cas_retries, lock, pc, loc, calls, spurious,
                   misused, count0, justFreed, freedPtrs, balance, obs>>

WarmFree ==
    /\ phase \in {"filling", "draining"}
    /\ phase = "filling" => WholeWords
    /\ \E ptr \in held[Driver] \cap {PtrOf(s) : s \in LiveSlots(num_words)} :
          LET st == FreeAlone(variant, ArenaState, base, slot_size, ptr)
          IN  /\ words' = st.words
              /\ allocation_hint' = st.hint
              /\ slots_in_use' = st.count
              /\ held' = [held EXCEPT ![Driver] = st.got]
              /\ freedPtrs' = freedPtrs \cup {ptr}
    /\ streak' = {}
    /\ phase' = "draining"
    /\ UNCHANGED <<arenaVars, tally, mem, cas_retries, lock, pc, loc, calls, spurious,
                   misused, count0, justFreed, balance, obs>>

\* The client threads start.
Start ==
    /\ phase \in {"constructed", "filling", "draining"}
    /\ phase = "filling" => WholeWords
    /\ phase' = "running"
    /\ count0' = slots_in_use
    /\ UNCHANGED <<arenaVars, tally, mem, words, allocation_hint, cas_retries, slots_in_use,
                   lock, pc, loc, held, calls, spurious, misused, streak,
                   justFreed, freedPtrs, balance, obs>>

Warmup == WarmAllocate \/ WarmFree \/ Start

\* ------------------------------------------------------------------------
\* Bookkeeping shared by every step of a client thread
\* ------------------------------------------------------------------------

Running == phase = "running"

AllocPCs ==
    {"a_lock", "a_crit", "a_count", "a_unlock", "a_hint", "a_load", "a_cas",
     "a_retry", "a_ret"}

FreePCs == {"f_lock", "f_crit", "f_or", "f_count", "f_unlock", "f_ret"}

\* Where a call has its result and is about to return.
AllocRetPCs == {"a_unlock", "a_ret"}

FreeRetPCs == {"f_unlock", "f_ret"}

FullOf(ws) == \A i \in WordIdxs : ws[i] = FULLY_ALLOCATED

\* After a step of thread t: for every call in progress, whether the arena
\* has been full at some instant (ever) and at every instant (always) since
\* the call was made, and whether the call's own steps changed a word or
\* slots_in_use (touched) or allocation_hint (moved).  justFreed lasts while
\* only its thread runs.
Track(t, jf) ==
    /\ obs' = [u \in Threads |->
                 IF pc'[u] = "idle" THEN NoObs
                 ELSE LET f  == pc'[u] \in AllocPCs /\ FullOf(words')
                          ch == u = t /\ (words' # words \/ slots_in_use' # slots_in_use)
                          mv == u = t /\ allocation_hint' # allocation_hint
                      IN  IF pc[u] = "idle"
                          THEN [ever |-> f, always |-> f, touched |-> ch, moved |-> mv]
                          ELSE [ever |-> obs[u].ever \/ f,
                                always |-> obs[u].always /\ f,
                                touched |-> obs[u].touched \/ ch,
                                moved |-> obs[u].moved \/ mv]]
    /\ justFreed' = IF jf # NoJust /\ jf[1] # t THEN NoJust ELSE jf

AllocLoc(size, req1) ==
    [op |-> "allocate", size |-> size, req1 |-> req1, start_idx |-> 0, word_idx |-> 0,
     wrapped |-> FALSE, observed |-> {}, overtaken |-> FALSE, slot_idx |-> NoSlot,
     result |-> NULL]

FreeLoc(ptr, size, start_slot) ==
    [op |-> "free", ptr |-> ptr, size |-> size, start_slot |-> start_slot,
     rc |-> 0, dbl |-> FALSE]

\* A faulty allocate: it takes slots_in_use to tell whether a slot is left.
AllocationBaseByCount(b, ss, slot_idx) ==
    IF slot_idx # NoSlot /\ slots_in_use < num_slots THEN SlotPtr(b, ss, slot_idx) ELSE NULL

\* A faulty allocate: the test slot_idx != -1 is missing.
AllocationBaseUnchecked(b, ss, slot_idx) == SlotPtr(b, ss, slot_idx)

\* if (slot_idx != -1) allocation_base = base + slot_size * slot_idx
AllocationBase(b, ss, slot_idx) ==
    IF slot_idx # NoSlot THEN SlotPtr(b, ss, slot_idx) ELSE NULL

\* ------------------------------------------------------------------------
\* allocate(size)
\* ------------------------------------------------------------------------

\* The call, up to the first shared access: size == 0 returns NULL; the mutex
\* arenas take the lock before they look at slots_required, the others
\* return NULL at once unless slots_required == 1.
Allocate(t, size) ==
    /\ Running /\ pc[t] = "idle"
    /\ calls' = calls + 1
    /\ LET req1   == SlotsRequired(size, slot_size) = U64(1)
           enters == ~AllocateRejects(size) /\ (variant \in MutexVariants \/ req1)
       IN  /\ pc' = [pc EXCEPT ![t] =
                       IF ~enters THEN "a_ret"
                       ELSE IF variant \in LockedVariants THEN "a_lock"
                       ELSE IF variant = "ArenaLockFreeHint" THEN "a_hint"
                       ELSE "a_load"]
           /\ loc' = [loc EXCEPT ![t] = AllocLoc(size, req1)]
           /\ tally' = [tally EXCEPT !.callers = @ \cup {t}]
           /\ UNCHANGED <<arenaVars, mem, words, allocation_hint, cas_retries,
                          slots_in_use, lock, held, spurious, phase, misused,
                          streak, count0, freedPtrs, balance>>
           /\ Track(t, IF enters /\ req1 THEN justFreed ELSE NoJust)

\* A faulty lock: it is taken whoever holds it.
TryLockBarging(holder) == TRUE

\* std::lock_guard / while (bitmap_spinlock.test_and_set()) yield: the thread
\* goes on only when nobody holds the lock.
TryLock(holder) == holder = NoThread

AllocLock(t) ==
    /\ pc[t] = "a_lock" /\ TryLock(lock)
    /\ lock' = t
    /\ pc' = [pc EXCEPT ![t] = "a_crit"]
    /\ UNCHANGED <<arenaVars, tally, mem, words, allocation_hint, cas_retries, slots_in_use,
                   loc, held, calls, spurious, phase, misused, streak, count0,
                   freedPtrs, balance>>
    /\ Track(t, justFreed)

\* Under the lock: if (slots_required == 1) slot_idx = bitmap->allocate_one()
AllocCrit(t) ==
    /\ pc[t] = "a_crit"
    /\ LET r == IF ~loc[t].req1
                THEN [slot |-> NoSlot, words |-> words, hint |-> allocation_hint]
                ELSE IF variant \in HintedVariants
                THEN BitmapAllocateOne(words, allocation_hint, num_words)
                ELSE BitmapNoHintAllocateOne(words, allocation_hint, num_words)
           p == AllocationBase(base, slot_size, r.slot)
       IN  /\ words' = r.words
           /\ allocation_hint' = r.hint
           /\ loc' = [loc EXCEPT ![t].slot_idx = r.slot, ![t].result = p]
           /\ pc' = [pc EXCEPT ![t] = IF p # NULL THEN "a_count" ELSE "a_unlock"]
           /\ freedPtrs' = freedPtrs \ {p}
    /\ UNCHANGED <<arenaVars, tally, mem, cas_retries, slots_in_use, lock, held, calls,
                   spurious, phase, misused, streak, count0, balance>>
    /\ Track(t, justFreed)

\* slots_in_use.fetch_add(1)
AllocCount(t) ==
    /\ pc[t] = "a_count"
    /\ slots_in_use' = ToInt16(slots_in_use + 1)
    /\ pc' = [pc EXCEPT ![t] = IF variant \in LockedVariants THEN "a_unlock" ELSE "a_ret"]
    /\ UNCHANGED <<arenaVars, tally, mem, words, allocation_hint, cas_retries, lock, loc,
                   held, calls, spurious, phase, misused, streak, count0,
                   freedPtrs, balance>>
    /\ Track(t, justFreed)

\* A faulty release: the flag is left set.
ClearLockNever(holder, unlocking) == holder

\* bitmap_spinlock.clear(std::memory_order_release), or the end of the scope
\* of the lock_guard: a thread that took the lock releases it.
ClearLock(holder, unlocking) == IF unlocking THEN NoThread ELSE holder

\* return allocation_base (releasing the lock when one is held); the caller
\* keeps the pointer.
AllocReturn(t) ==
    /\ pc[t] \in AllocRetPCs
    /\ lock' = ClearLock(lock, pc[t] = "a_unlock")
    /\ LET p == loc[t].result
       IN  /\ held' = [held EXCEPT ![t] = IF p # NULL THEN @ \cup {p} ELSE @]
           /\ streak' = IF p # NULL THEN streak \cup {p} ELSE streak
           /\ balance' = IF p # NULL THEN balance + 1 ELSE balance
    /\ pc' = [pc EXCEPT ![t] = "idle"]
    /\ loc' = [loc EXCEPT ![t] = IdleLoc]
    /\ UNCHANGED <<arenaVars, tally, mem, words, allocation_hint, cas_retries, slots_in_use,
                   calls, spurious, phase, misused, count0, freedPtrs>>
    /\ Track(t, NoJust)

\* BitmapLockFreeHint::allocate_one: old = allocation_hint.fetch_add(1)
AllocHint(t) ==
    /\ pc[t] = "a_hint"
    /\ allocation_hint' = allocation_hint + 1
    /\ LET start == HintStart(allocation_hint, num_words)
       IN  loc' = [loc EXCEPT ![t].start_idx = start, ![t].word_idx = start]
    /\ pc' = [pc EXCEPT ![t] = "a_load"]
    /\ UNCHANGED <<arenaVars, tally, mem, words, cas_retries, slots_in_use, lock, held, calls,
                   spurious, phase, misused, streak, count0, freedPtrs, balance>>
    /\ Track(t, justFreed)

\* A faulty scan: the wrap-around loop over [0, start_idx) is missing.
NextWordNoWrap(l, nw, wraps) ==
    IF l.word_idx + 1 < nw
    THEN [done |-> FALSE, word_idx |-> l.word_idx + 1, wrapped |-> FALSE]
    ELSE [done |-> TRUE, word_idx |-> 0, wrapped |-> FALSE]

\* The word the scan looks at after word_idx: the next one of the loop it is
\* in, then (BitmapLockFreeHint) the wrap-around loop over [0, start_idx).
NextWord(l, nw, wraps) ==
    IF ~l.wrapped
    THEN IF l.word_idx + 1 < nw
         THEN [done |-> FALSE, word_idx |-> l.word_idx + 1, wrapped |-> FALSE]
         ELSE IF wraps /\ 0 < l.start_idx
         THEN [done |-> FALSE, word_idx |-> 0, wrapped |-> TRUE]
         ELSE [done |-> TRUE, word_idx |-> 0, wrapped |-> FALSE]
    ELSE IF l.word_idx + 1 < l.start_idx
         THEN [done |-> FALSE, word_idx |-> l.word_idx + 1, wrapped |-> TRUE]
         ELSE [done |-> TRUE, word_idx |-> 0, wrapped |-> TRUE]

\* A faulty loop test: a word is tried only while all of its slots are free.
StaysOnlyOnFreeWord(observed) == observed = FULLY_FREE

\* A faulty loop test: a word with a single free slot is given up.
StaysWhileSeveralFree(observed) == Cardinality(observed) > 1

\* while (observed != FULLY_ALLOCATED) { bit_idx = ...; if (invalid) break; ...
StaysOnWord(observed) ==
    observed # FULLY_ALLOCATED /\ BitIdxValid(HighestBit(observed))

\* Thread t, having seen `observed` in its word: try the CAS, or move to the
\* next word, or return -1 when no word is left.
AfterObserving(t, observed) ==
    LET l == [loc[t] EXCEPT !.observed = observed]
        n == NextWord(l, num_words, variant = "ArenaLockFreeHint")
    IN  IF StaysOnWord(observed)
        THEN /\ pc' = [pc EXCEPT ![t] = "a_cas"]
             /\ loc' = [loc EXCEPT ![t] = l]
        ELSE IF n.done
        THEN /\ pc' = [pc EXCEPT ![t] = "a_ret"]
             /\ loc' = [loc EXCEPT ![t] = l]
        ELSE /\ pc' = [pc EXCEPT ![t] = "a_load"]
             /\ loc' = [loc EXCEPT ![t] =
                          [l EXCEPT !.word_idx = n.word_idx, !.wrapped = n.wrapped]]

\* observed = words[word_idx].load(acquire)
AllocLoad(t) ==
    /\ pc[t] = "a_load"
    /\ AfterObserving(t, words[loc[t].word_idx])
    /\ mem' = [mem EXCEPT !.seen[t] = Acquire(@, mem.rel[loc[t].word_idx])]
    /\ UNCHANGED <<arenaVars, tally, words, allocation_hint, cas_retries, slots_in_use,
                   lock, held, calls, spurious, phase, misused, streak, count0,
                   freedPtrs, balance>>
    /\ Track(t, justFreed)

\* words[word_idx].compare_exchange_weak(observed, observed & ~bit_mask)
AllocCas(t, spur) ==
    /\ pc[t] = "a_cas"
    /\ spur => (spurious < MaxSpurious /\ words[loc[t].word_idx] = loc[t].observed)
    /\ LET l        == loc[t]
           current  == words[l.word_idx]
           bit_idx  == HighestBit(l.observed)
           new_word == ClearBit(l.observed, bit_idx)
           slot     == get_slot_index_from_word_and_bit_index(l.word_idx, bit_idx)
       IN  IF CasSucceeds(current, l.observed, spur)
           THEN /\ words' = [words EXCEPT ![l.word_idx] = new_word]
                /\ loc' = [loc EXCEPT ![t].slot_idx = slot,
                                      ![t].result = AllocationBase(base, slot_size, slot)]
                /\ pc' = [pc EXCEPT ![t] = "a_count"]
                /\ freedPtrs' = freedPtrs \ {AllocationBase(base, slot_size, slot)}
                /\ spurious' = spurious
           ELSE /\ words' = words
                /\ loc' = [loc EXCEPT ![t].observed = current,
                                      ![t].overtaken = (current # l.observed)]
                /\ pc' = [pc EXCEPT ![t] = "a_retry"]
                /\ freedPtrs' = freedPtrs
                /\ spurious' = IF spur THEN spurious + 1 ELSE spurious
    /\ mem' = LET w    == loc[t].word_idx
                  view == Acquire(mem.seen[t], mem.rel[w])
              IN  IF CasSucceeds(words[w], loc[t].observed, spur)
                  THEN [mem EXCEPT !.seen[t] = view, !.rel[w] = Release(@, view)]
                  ELSE [mem EXCEPT !.seen[t] = view]
    /\ tally' = IF CasSucceeds(words[loc[t].word_idx], loc[t].observed, spur)
                THEN tally
                ELSE [tally EXCEPT !.failed = @ + 1]
    /\ UNCHANGED <<arenaVars, allocation_hint, cas_retries, slots_in_use, lock,
                   held, calls, phase, misused, streak, count0, balance>>
    /\ Track(t, justFreed)

\* A faulty retry: the failed attempt is not counted.
CountRetryNot(retries) == retries

\* cas_retries.fetch_add(1, std::memory_order_relaxed)
CountRetry(retries) == retries + 1

\* cas_retries.fetch_add(1), then the loop test on the freshly observed word
AllocRetry(t) ==
    /\ pc[t] = "a_retry"
    /\ cas_retries' = CountRetry(cas_retries)
    /\ AfterObserving(t, loc[t].observed)
    /\ UNCHANGED <<arenaVars, tally, mem, words, allocation_hint, slots_in_use, lock, held,
                   calls, spurious, phase, misused, streak, count0, freedPtrs,
                   balance>>
    /\ Track(t, justFreed)

\* ------------------------------------------------------------------------
\* free(ptr, size)
\* ------------------------------------------------------------------------

\* Under the lock, Arena::free and its locked siblings release the slot only
\* if it is in range and its bit is 0 (a bit of 1 is a double free).
LockedFreeProceeds(ws, nslots, start_slot) ==
    /\ start_slot < nslots
    /\ LET wb == get_word_and_bit_index_from_slot_index(start_slot)
       IN  ~TestBit(ws[wb[1]], wb[2])

\* The lock-free arenas call free_slot when the slot is in range.
LockFreeFreeProceeds(nslots, start_slot) == start_slot < nslots

\* A faulty test of rc: the decrement is taken on the error codes.
CountsFreeOnError(rc) == rc # 0

\* if (rc == 0) slots_in_use.fetch_sub(1)
CountsFree(rc) == rc = 0

\* The call, up to the first shared access.  A caller that frees a pointer it
\* holds, with a size of one slot, gives the pointer up.
Free(t, ptr, size) ==
    /\ Running /\ pc[t] = "idle"
    /\ calls' = calls + 1
    /\ LET proper     == ptr \in held[t] /\ SlotsRequired(size, slot_size) = U64(1)
           rejects    == FreeRejects(base, capacity, slot_size, ptr, size)
           start_slot == StartSlot(base, slot_size, ptr)
           enters     == /\ ~rejects
                         /\ \/ variant \in LockedVariants
                            \/ LockFreeFreeProceeds(num_slots, start_slot)
           alone      == \A u \in Threads \ {t} : pc[u] = "idle"
       IN  /\ held' = [held EXCEPT ![t] = IF proper THEN @ \ {ptr} ELSE @]
           /\ balance' = IF proper THEN balance - 1 ELSE balance
           /\ misused' = (misused \/ ~proper)
           /\ pc' = [pc EXCEPT ![t] =
                       IF ~enters THEN "f_ret"
                       ELSE IF variant \in LockedVariants THEN "f_lock"
                       ELSE "f_or"]
           /\ loc' = [loc EXCEPT ![t] = FreeLoc(ptr, size, start_slot)]
           /\ streak' = {}
           /\ mem' = IF proper /\ variant \in LockFreeVariants
                     THEN WritePayload(mem, t, ptr, calls + 1)
                     ELSE mem
           /\ tally' = [tally EXCEPT !.callers = @ \cup {t}]
           /\ UNCHANGED <<arenaVars, words, allocation_hint, cas_retries,
                          slots_in_use, lock, spurious, phase, count0, freedPtrs>>
           /\ Track(t, IF proper /\ ArenaFull /\ alone THEN <<t, ptr>> ELSE NoJust)

FreeLock(t) ==
    /\ pc[t] = "f_lock" /\ TryLock(lock)
    /\ lock' = t
    /\ pc' = [pc EXCEPT ![t] = "f_crit"]
    /\ UNCHANGED <<arenaVars, tally, mem, words, allocation_hint, cas_retries, slots_in_use,
                   loc, held, calls, spurious, phase, misused, streak, count0,
                   freedPtrs, balance>>
    /\ Track(t, justFreed)

\* Under the lock: the range and double-free checks, then bitmap->free_slot
FreeCrit(t) ==
    /\ pc[t] = "f_crit"
    /\ LET l == loc[t]
           r == BitmapFreeSlot(words, allocation_hint, l.start_slot,
                               variant \in HintedVariants)
       IN  IF LockedFreeProceeds(words, num_slots, l.start_slot)
           THEN /\ words' = r.words
                /\ allocation_hint' = r.hint
                /\ freedPtrs' = freedPtrs \cup {l.ptr}
                /\ pc' = [pc EXCEPT ![t] = "f_count"]
           ELSE /\ UNCHANGED <<words, allocation_hint, freedPtrs>>
                /\ pc' = [pc EXCEPT ![t] = "f_unlock"]
    /\ loc' = [loc EXCEPT ![t].dbl = loc[t].ptr \in freedPtrs]
    /\ streak' = {}
    /\ UNCHANGED <<arenaVars, tally, mem, cas_retries, slots_in_use, lock, held, calls,
                   spurious, phase, misused, count0, balance>>
    /\ Track(t, justFreed)

\* int rc = bitmap->free_slot(start_slot): words[word_idx].fetch_or(bit)
FreeOr(t) ==
    /\ pc[t] = "f_or"
    /\ LET l == loc[t]
           r == LockFreeFreeSlot(words, l.start_slot)
       IN  /\ words' = r.words
           /\ loc' = [loc EXCEPT ![t].rc = r.rc, ![t].dbl = l.ptr \in freedPtrs]
           /\ freedPtrs' = freedPtrs \cup {l.ptr}
           /\ pc' = [pc EXCEPT ![t] = IF CountsFree(r.rc) THEN "f_count" ELSE "f_ret"]
    /\ streak' = {}
    /\ mem' = LET w == get_word_and_bit_index_from_slot_index(loc[t].start_slot)[1]
              IN  [mem EXCEPT !.rel[w] = Release(@, mem.seen[t])]
    /\ UNCHANGED <<arenaVars, tally, allocation_hint, cas_retries, slots_in_use, lock,
                   held, calls, spurious, phase, misused, count0, balance>>
    /\ Track(t, justFreed)

\* slots_in_use.fetch_sub(1)
FreeCount(t) ==
    /\ pc[t] = "f_count"
    /\ slots_in_use' = ToInt16(slots_in_use - 1)
    /\ pc' = [pc EXCEPT ![t] = IF variant \in LockedVariants THEN "f_unlock" ELSE "f_ret"]
    /\ UNCHANGED <<arenaVars, tally, mem, words, allocation_hint, cas_retries, lock, loc,
                   held, calls, spurious, phase, misused, streak, count0,
                   freedPtrs, balance>>
    /\ Track(t, justFreed)

FreeReturn(t) ==
    /\ pc[t] \in FreeRetPCs
    /\ lock' = ClearLock(lock, pc[t] = "f_unlock")
    /\ pc' = [pc EXCEPT ![t] = "idle"]
    /\ loc' = [loc EXCEPT ![t] = IdleLoc]
    /\ UNCHANGED <<arenaVars, tally, mem, words, allocation_hint, cas_retries, slots_in_use,
                   held, calls, spurious, phase, misused, streak, count0,
                   freedPtrs, balance>>
    /\ Track(t, justFreed)

\* ------------------------------------------------------------------------
\* Clients
\* ------------------------------------------------------------------------

LivePtrs == {PtrOf(s) : s \in LiveSlots(num_words)}

\* The benchmark's workers: allocate(slot_size), and free(p, slot_size) of a
\* pointer the worker holds.
WorkerAllocate(t, max) == calls < max /\ Allocate(t, U64(slot_size))

WorkerFree(t, max) ==
    /\ calls < max
    /\ \E ptr \in held[t] \cap LivePtrs : Free(t, ptr, U64(slot_size))

\* A client that passes anything: the last thread.
Rogue == MaxOf(Threads)

SizeInputs == {U64(0), U64(1), U64(slot_size), U64(slot_size + 1), U64Max}

PtrInputs ==
    {NULL, base - 1, base + capacity} \cup LivePtrs \cup {p + 1 : p \in LivePtrs}

AnyAllocate(t, max) == calls < max /\ \E size \in SizeInputs : Allocate(t, size)

AnyFree(t, max) ==
    /\ calls < max
    /\ \E ptr \in PtrInputs, size \in SizeInputs : Free(t, ptr, size)

Step(t) ==
    \/ AllocLock(t)
    \/ AllocCrit(t)
    \/ AllocCount(t)
    \/ AllocReturn(t)
    \/ AllocHint(t)
    \/ AllocLoad(t)
    \/ \E spur \in BOOLEAN : AllocCas(t, spur)
    \/ AllocRetry(t)
    \/ FreeLock(t)
    \/ FreeCrit(t)
    \/ FreeOr(t)
    \/ FreeCount(t)
    \/ FreeReturn(t)

Next ==
    \/ Warmup
    \/ \E t \in Threads :
          WorkerAllocate(t, MaxCalls) \/ WorkerFree(t, MaxCalls) \/ Step(t)

Spec == Init /\ [][Next]_vars

\* One worker next to one client that passes anything.
NextAny ==
    \/ Warmup
    \/ WorkerAllocate(Driver, MaxAnyCalls) \/ WorkerFree(Driver, MaxAnyCalls)
    \/ AnyAllocate(Rogue, MaxAnyCalls) \/ AnyFree(Rogue, MaxAnyCalls)
    \/ \E t \in Threads : Step(t)

SpecAny == Init /\ [][NextAny]_vars

\* ------------------------------------------------------------------------
\* The constructors on their own, over capacities up to SIZE_MAX
\* ------------------------------------------------------------------------

\* Requested capacities: around one and two words of slots, the 256 KiB and
\* 20 MB of the benchmarks, and around 2^32, 2^38, 2^44, 2^63 and 2^64.
CapacityInputs ==
    {U64(0), U64(1), U64(63), U64(64), U64(65), U64(127), U64(128), U64(129),
     U64(262144), U64(20971520),
     <<65535, 65535, 0, 0>>, <<0, 0, 1, 0>>, <<1, 0, 1, 0>>, <<64, 0, 1, 0>>,
     <<0, 0, 64, 0>>, <<0, 0, 4096, 0>>, <<0, 0, 0, 32768>>,
     <<65472, 65535, 65535, 65535>>, U64Max}

PageSizeInputs == {1, 2, 64, 4096}

NotConstructed == [ok |-> FALSE]

InitCtor ==
    /\ variant \in Variants
    /\ \E cap \in CapacityInputs, ps \in PageSizeInputs :
          ctor = [capacity |-> cap, page_size |-> ps, done |-> FALSE,
                  result |-> NotConstructed]
    /\ base = NULL
    /\ capacity = 0
    /\ slot_size = 0
    /\ num_slots = 0
    /\ num_words = 0
    /\ words = <<>>
    /\ allocation_hint = 0
    /\ cas_retries = 0
    /\ slots_in_use = 0
    /\ lock = NoThread
    /\ pc = [t \in Threads |-> "idle"]
    /\ loc = [t \in Threads |-> IdleLoc]
    /\ held = [t \in Threads |-> {}]
    /\ calls = 0
    /\ spurious = 0
    /\ phase = "args"
    /\ misused = FALSE
    /\ streak = {}
    /\ count0 = 0
    /\ justFreed = NoJust
    /\ freedPtrs = {}
    /\ balance = 0
    /\ obs = [t \in Threads |-> NoObs]
    /\ twin = NoTwin
    /\ mem = NoMem(0)
    /\ tally = NoTally

\* The constructor call.  capacity, bitmap->num_slots and bitmap->num_words of
\* the result stay in ctor.result, as size_t values.
Construct(mmapOk) ==
    /\ phase = "args"
    /\ LET r == ArenaCtor(ctor.capacity, ctor.page_size, mmapOk)
       IN  /\ ctor' = [ctor EXCEPT !.done = TRUE, !.result = r]
           /\ phase' = IF r.ok THEN "constructed" ELSE "failed"
           /\ base' = IF r.ok THEN BaseAddr ELSE base
           /\ slot_size' = IF r.ok THEN r.slot_size ELSE slot_size
           /\ slots_in_use' = IF r.ok THEN r.slots_in_use ELSE slots_in_use
           /\ allocation_hint' = IF r.ok THEN r.bitmap.allocation_hint ELSE allocation_hint
           /\ cas_retries' = IF r.ok THEN r.bitmap.cas_retries ELSE cas_retries
    /\ UNCHANGED <<variant, capacity, num_slots, num_words, words, lock, pc, loc,
                   held, calls, spurious, misused, streak, count0, justFreed,
                   freedPtrs, balance, obs, twin, mem, tally>>

NextCtor == \E mmapOk \in BOOLEAN : Construct(mmapOk)

SpecCtor == InitCtor /\ [][NextCtor]_vars

\* ------------------------------------------------------------------------
\* An arena large enough for slots_in_use to leave the range of int16_t
\* ------------------------------------------------------------------------

\* 32768 slots: one more than INT16_MAX.
BigWords == 32768 \div WORD_LENGTH

\* allocation_hint after one thread has filled the first k words of a fresh
\* arena with k * 64 calls of allocate(slot_size): Bitmap stores the word of
\* the last claim, BitmapLockFreeHint has counted the calls.
HintAfterFilling(v, k) ==
    IF k = 0 THEN 0
    ELSE IF v \in {"Arena", "ArenaSpinLock"} THEN k - 1
    ELSE IF v = "ArenaLockFreeHint" THEN k * WORD_LENGTH
    ELSE 0

\* The arena of nw words after the first thread, alone, has filled its first
\* k words with k * 64 calls of allocate(slot_size), which fill the words in
\* order.  The thread kept none of those pointers, as the worker of
\* benchmark_old.cpp keeps none.
Filled(v, nw, k) ==
    LET r == ArenaCtor(CapacityFor(nw), PageSize, TRUE)
    IN  /\ variant = v
        /\ ctor = [capacity |-> CapacityFor(nw), page_size |-> PageSize,
                   done |-> TRUE, result |-> r]
        /\ base = BaseAddr
        /\ capacity = U64ToNat(r.capacity)
        /\ slot_size = r.slot_size
        /\ num_slots = U64ToNat(r.bitmap.num_slots)
        /\ num_words = U64ToNat(r.bitmap.num_words)
        /\ words = [i \in 0 .. (nw - 1) |->
                      IF i < k THEN FULLY_ALLOCATED ELSE r.bitmap.fill]
        /\ allocation_hint = HintAfterFilling(v, k)
        /\ cas_retries = r.bitmap.cas_retries
        /\ slots_in_use = ToInt16(k * WORD_LENGTH)
        /\ lock = NoThread
        /\ pc = [t \in Threads |-> "idle"]
        /\ loc = [t \in Threads |-> IdleLoc]
        /\ held = [t \in Threads |-> {}]
        /\ calls = 0
        /\ spurious = 0
        /\ phase = "filling"
        /\ misused = FALSE
        /\ streak = {}
        /\ count0 = 0
        /\ justFreed = NoJust
        /\ freedPtrs = {}
        /\ balance = 0
        /\ obs = [t \in Threads |-> NoObs]
        /\ mem = NoMem(nw)
        /\ tally = NoTally

\* All words but the last are filled.
InitBig == \E v \in Variants : Filled(v, BigWords, BigWords - 1) /\ twin = NoTwin

\* The first thread goes on allocating, alone.
NextBig == WarmAllocate \/ Start

SpecBig == InitBig /\ [][NextBig]_vars

\* ------------------------------------------------------------------------
\* The old benchmark: every thread allocates until it gets NULL
\* ------------------------------------------------------------------------

\* The threads start together when this many slots are left; up to then the
\* first thread has run alone.
MaxFillFree == 3

FreeSlots == num_slots - ZeroBits

FillWarm == FreeSlots > MaxFillFree /\ WarmAllocate

FillStart ==
    /\ phase \in {"constructed", "filling"}
    /\ FreeSlots <= MaxFillFree
    /\ phase' = "running"
    /\ count0' = slots_in_use
    /\ UNCHANGED <<arenaVars, tally, mem, words, allocation_hint, cas_retries, slots_in_use,
                   lock, pc, loc, held, calls, spurious, misused, streak,
                   justFreed, freedPtrs, balance, obs>>

\* char* slot = arena->allocate(slot_size)
FillAllocate(t) == Allocate(t, U64(slot_size))

\* if (slot == NULL) break; else local_count++
FillReturn(t) ==
    /\ pc[t] \in AllocRetPCs
    /\ IF loc[t].result # NULL
       THEN AllocReturn(t)
       ELSE /\ lock' = IF pc[t] = "a_unlock" THEN NoThread ELSE lock
            /\ pc' = [pc EXCEPT ![t] = "done"]
            /\ loc' = [loc EXCEPT ![t] = IdleLoc]
            /\ UNCHANGED <<arenaVars, tally, mem, words, allocation_hint, cas_retries,
                           slots_in_use, held, calls, spurious, phase, misused,
                           streak, count0, freedPtrs, balance>>
            /\ Track(t, NoJust)

FillStep(t) ==
    \/ FillAllocate(t)
    \/ AllocLock(t)
    \/ AllocCrit(t)
    \/ AllocCount(t)
    \/ AllocHint(t)
    \/ AllocLoad(t)
    \/ \E spur \in BOOLEAN : AllocCas(t, spur)
    \/ AllocRetry(t)
    \/ FillReturn(t)

NextFill == FillWarm \/ FillStart \/ \E t \in Threads : FillStep(t)

\* Once the threads have started, every thread that can take a step takes one
\* in the end (the scheduler is fair to each std::thread), and a spurious
\* failure of the CAS does not go on for ever.
SpecFill ==
    /\ Init /\ [][NextFill]_vars
    /\ \A t \in Threads : WF_vars(FillStep(t))

\* ------------------------------------------------------------------------
\* Two runs of the same calls in the same schedule, which differ in the
\* values of slots_in_use and cas_retries
\* ------------------------------------------------------------------------

MaxTwinCalls == 2

\* The state of a run.
Snapshot ==
    [variant |-> variant,
     ctor |-> ctor,
     base |-> base,
     capacity |-> capacity,
     slot_size |-> slot_size,
     num_slots |-> num_slots,
     num_words |-> num_words,
     words |-> words,
     allocation_hint |-> allocation_hint,
     cas_retries |-> cas_retries,
     slots_in_use |-> slots_in_use,
     lock |-> lock,
     pc |-> pc,
     loc |-> loc,
     held |-> held,
     calls |-> calls,
     spurious |-> spurious,
     phase |-> phase,
     misused |-> misused,
     streak |-> streak,
     count0 |-> count0,
     justFreed |-> justFreed,
     freedPtrs |-> freedPtrs,
     balance |-> balance,
     obs |-> obs,
     mem |-> mem,
     tally |-> tally]

\* The second run's state when the first run's is s: the counters differ by
\* twin.count and twin.retries, and so does count0, which Start copies from
\* slots_in_use.
Shifted(s) ==
    [s EXCEPT !.slots_in_use = ToInt16(@ + twin.count),
              !.cas_retries = @ + twin.retries,
              !.count0 = IF s.phase = "running" THEN ToInt16(@ + twin.count) ELSE @]

LoadRun(s) ==
    /\ variant' = s.variant
    /\ ctor' = s.ctor
    /\ base' = s.base
    /\ capacity' = s.capacity
    /\ slot_size' = s.slot_size
    /\ num_slots' = s.num_slots
    /\ num_words' = s.num_words
    /\ words' = s.words
    /\ allocation_hint' = s.allocation_hint
    /\ cas_retries' = s.cas_retries
    /\ slots_in_use' = s.slots_in_use
    /\ lock' = s.lock
    /\ pc' = s.pc
    /\ loc' = s.loc
    /\ held' = s.held
    /\ calls' = s.calls
    /\ spurious' = s.spurious
    /\ phase' = s.phase
    /\ misused' = s.misused
    /\ streak' = s.streak
    /\ count0' = s.count0
    /\ justFreed' = s.justFreed
    /\ freedPtrs' = s.freedPtrs
    /\ balance' = s.balance
    /\ obs' = s.obs
    /\ mem' = s.mem
    /\ tally' = s.tally

\* How far the second run's counters are from the first's.
CountOffsets == {num_slots}

RetryOffsets == {1}

InitTwin ==
    /\ \E v \in Variants, nw \in 1 .. MaxWords : \E k \in 0 .. nw : Filled(v, nw, k)
    /\ \E c \in CountOffsets, r \in RetryOffsets :
          twin = [mode |-> "first", count |-> c, retries |-> r,
                  from |-> Snapshot, to |-> Snapshot]

\* The calls and steps of either run.
NextCalls ==
    \/ Start
    \/ WorkerAllocate(Driver, MaxTwinCalls) \/ WorkerFree(Driver, MaxTwinCalls)
    \/ AnyAllocate(Rogue, MaxTwinCalls) \/ AnyFree(Rogue, MaxTwinCalls)
    \/ \E t \in Threads : Step(t)

\* The first run takes a step, from twin.from.
TwinLead == twin.mode = "first" /\ Snapshot = twin.from /\ NextCalls

\* The second run's turn: it is where it was before the first run's step.
TwinSwap ==
    /\ twin.mode = "first" /\ Snapshot # twin.from
    /\ LoadRun(Shifted(twin.from))
    /\ twin' = [twin EXCEPT !.mode = "second", !.to = Snapshot]

\* The second run goes where the first run went, but for the counters.
TwinFollow ==
    /\ twin.mode = "second" /\ Snapshot = Shifted(twin.from)
    /\ LoadRun(Shifted(twin.to))
    /\ twin' = twin

\* Back to the first run.
TwinSwapBack ==
    /\ twin.mode = "second" /\ Snapshot # Shifted(twin.from)
    /\ LoadRun(twin.to)
    /\ twin' = [twin EXCEPT !.mode = "first", !.from = twin.to]

NextTwin == TwinLead \/ TwinSwap \/ TwinFollow \/ TwinSwapBack

SpecTwin == InitTwin /\ [][NextTwin]_vars

\* ------------------------------------------------------------------------
\* The bitmaps on their own: allocate_one and free_slot of one thread, over
\* word contents and hints
\* ------------------------------------------------------------------------

MaxBitmapWords == 3

MaxBitmapOps == 2

\* Word contents: full, one slot left at either end or in the middle, a few
\* slots left, all free.
WordInputs == {FULLY_ALLOCATED, {0}, {MAX_IDX}, {0, MAX_IDX}, {5, 40}, FULLY_FREE}

\* The values allocation_hint takes: Bitmap keeps a word index in it,
\* BitmapLockFreeHint counts the calls, the other bitmaps have none.
HintInputs(v, nw) ==
    IF v \in {"Arena", "ArenaSpinLock"} THEN 0 .. (nw - 1)
    ELSE IF v = "ArenaLockFreeHint" THEN 0 .. (2 * nw)
    ELSE {0}

InitBitmap ==
    \E v \in Variants, nw \in 1 .. MaxBitmapWords :
        \E ws \in [0 .. (nw - 1) -> WordInputs], h \in HintInputs(v, nw) :
            LET r == ArenaCtor(CapacityFor(nw), PageSize, TRUE)
            IN  /\ variant = v
                /\ ctor = [capacity |-> CapacityFor(nw), page_size |-> PageSize,
                           done |-> TRUE, result |-> r]
                /\ base = BaseAddr
                /\ capacity = U64ToNat(r.capacity)
                /\ slot_size = r.slot_size
                /\ num_slots = U64ToNat(r.bitmap.num_slots)
                /\ num_words = U64ToNat(r.bitmap.num_words)
                /\ words = ws
                /\ allocation_hint = h
                /\ cas_retries = r.bitmap.cas_retries
                /\ slots_in_use = ToInt16(ZeroBitsFrom(ws, 0, nw))
                /\ lock = NoThread
                /\ pc = [t \in Threads |-> "idle"]
                /\ loc = [t \in Threads |-> IdleLoc]
                /\ held = [t \in Threads |-> {}]
                /\ calls = 0
                /\ spurious = 0
                /\ phase = "bitmap"
                /\ misused = FALSE
                /\ streak = {}
                /\ count0 = 0
                /\ justFreed = NoJust
                /\ freedPtrs = {}
                /\ balance = 0
                /\ obs = [t \in Threads |-> NoObs]
                /\ twin = NoTwin
                /\ mem = NoMem(nw)
                /\ tally = NoTally

\* bitmap->allocate_one(), run to its return by the one thread; the thread
\* keeps what it saw before the call and what it got.
ClaimOne ==
    /\ phase = "bitmap" /\ calls < MaxBitmapOps
    /\ LET r == AllocateOneAlone(variant, words, allocation_hint, num_words)
       IN  /\ words' = r.words
           /\ allocation_hint' = r.hint
           /\ loc' = [loc EXCEPT ![Driver] =
                        [op |-> "allocate_one", before |-> words,
                         hint |-> allocation_hint, slot |-> r.slot]]
    /\ calls' = calls + 1
    /\ UNCHANGED <<arenaVars, tally, mem, cas_retries, slots_in_use, lock, pc, held,
                   spurious, phase, misused, streak, count0, justFreed, freedPtrs,
                   balance, obs>>

\* The slot indexes passed to free_slot: both ends of every word, and the
\* first index after the last slot.
SlotInputs == LiveSlots(num_words) \cup {num_slots}

\* free_slot(slot_idx) of each bitmap type.
FreeSlotOf(v, ws, hint, slot_idx) ==
    IF v \in LockedVariants
    THEN BitmapFreeSlot(ws, hint, slot_idx, v \in HintedVariants)
    ELSE [rc |-> LockFreeFreeSlot(ws, slot_idx).rc,
          words |-> LockFreeFreeSlot(ws, slot_idx).words, hint |-> hint]

\* bitmap->free_slot(slot_idx).  With slot_idx >= num_slots, words[word_idx]
\* lies after the last word: the call either writes there and returns 0, the
\* words of the bitmap being as they were, or it faults; nothing is modelled
\* of what the program does after either.
ReleaseOne(slot_idx, faults) ==
    /\ phase = "bitmap" /\ calls < MaxBitmapOps
    /\ faults => slot_idx >= num_slots
    /\ LET inside == slot_idx < num_slots
           r == IF inside THEN FreeSlotOf(variant, words, allocation_hint, slot_idx)
                ELSE [rc |-> 0, words |-> words,
                      hint |-> IF variant \in {"Arena", "ArenaSpinLock"} /\ ~faults
                               THEN get_word_and_bit_index_from_slot_index(slot_idx)[1]
                               ELSE allocation_hint]
       IN  /\ words' = r.words
           /\ allocation_hint' = r.hint
           /\ loc' = [loc EXCEPT ![Driver] =
                        [op |-> "free_slot", before |-> words, hint |-> allocation_hint,
                         slot |-> slot_idx, rc |-> r.rc, faulted |-> faults]]
    /\ phase' = IF slot_idx < num_slots THEN phase ELSE "undefined"
    /\ calls' = calls + 1
    /\ UNCHANGED <<arenaVars, tally, mem, cas_retries, slots_in_use, lock, pc, held,
                   spurious, misused, streak, count0, justFreed, freedPtrs,
                   balance, obs>>

NextBitmap ==
    \/ ClaimOne
    \/ \E slot_idx \in SlotInputs, faults \in BOOLEAN : ReleaseOne(slot_idx, faults)

SpecBitmap == InitBitmap /\ [][NextBitmap]_vars

\* ------------------------------------------------------------------------
\* One thread making the same calls on two arenas of different types
\* ------------------------------------------------------------------------

MaxSameCalls == 4

\* The pairs of arena types compared: the arenas without hint, and those with
\* the hint of Bitmap.
SamePairs ==
    {<<"ArenaNoHint", "ArenaNoHintSpinLock">>, <<"ArenaNoHint", "ArenaLockFree">>,
     <<"Arena", "ArenaSpinLock">>}

\* Two arenas constructed alike, of which the thread has filled the first k
\* words; the variables hold the one the thread is calling, twin.other the
\* state of the other.
InitSame ==
    \E pair \in SamePairs, nw \in 1 .. MaxWords :
        \E k \in 0 .. nw :
            /\ Filled(pair[1], nw, k)
            /\ twin = [mode |-> "lead", other |-> [Snapshot EXCEPT !.variant = pair[2]]]

\* The call in progress has its result and is about to return.
AtResult == pc[Driver] \in AllocRetPCs \cup FreeRetPCs

\* The thread on the first arena: it returns from the call both arenas have
\* had, and makes the next.
SameLead ==
    /\ twin.mode = "lead"
    /\ ~(AtResult /\ calls > twin.other.calls)
    /\ \/ Start
       \/ WorkerAllocate(Driver, MaxSameCalls)
       \/ WorkerFree(Driver, MaxSameCalls)
       \/ Step(Driver)

\* The call on the first arena has its result: over to the second arena.
SameSwap ==
    /\ twin.mode = "lead"
    /\ AtResult /\ calls > twin.other.calls
    /\ LoadRun(twin.other)
    /\ twin' = [twin EXCEPT !.mode = "follow", !.other = Snapshot]

\* The thread on the second arena: it returns from the call before, and
\* makes the call the first arena has just had.
SameFollow ==
    /\ twin.mode = "follow"
    /\ ~(AtResult /\ calls = twin.other.calls)
    /\ \/ Start
       \/ Step(Driver)
       \/ /\ calls < twin.other.calls
          /\ LET c == twin.other.loc[Driver]
             IN  IF c.op = "allocate"
                 THEN Allocate(Driver, c.size)
                 ELSE Free(Driver, c.ptr, c.size)

\* The call on the second arena has its result too: back to the first.
SameSwapBack ==
    /\ twin.mode = "follow"
    /\ AtResult /\ calls = twin.other.calls
    /\ LoadRun(twin.other)
    /\ twin' = [twin EXCEPT !.mode = "lead", !.other = Snapshot]

NextSame == SameLead \/ SameSwap \/ SameFollow \/ SameSwapBack

SpecSame == InitSame /\ [][NextSame]_vars

\* ------------------------------------------------------------------------
\* Properties
\* ------------------------------------------------------------------------

InRegion(p) == base <= p /\ p < base + capacity

OnSlot(p) == \E k \in 0 .. (num_slots - 1) : p = base + k * slot_size

Misaligned(p) == (p - base) % slot_size # 0

\* 1 <= size <= slot_size
SizeFits(size) == U64Less(U64(0), size) /\ ~U64Less(U64(slot_size), size)

AllIdle == \A t \in Threads : pc[t] = "idle"

\* C1: while every thread frees only pointers it holds, each once, no two
\* threads hold the same pointer at the same time, in any variant.
NoSharedPointer ==
    ~misused =>
        \A t1, t2 \in Threads : t1 # t2 => held[t1] \cap held[t2] = {}

\* Both threads hold pointers of a lock-free arena after a CAS was retried.
NoSharedPointerWitness ==
    /\ variant \in LockFreeVariants
    /\ cas_retries > 0
    /\ \A t \in Threads : held[t] # {}

\* C2: the pointers returned by successful allocates since the last free are
\* pairwise distinct, each is base + k * slot_size for a slot index k in
\* [0, slot_count), and each lies in [base, base + region_size).
FreshPointersDistinct ==
    /\ \A p \in streak : OnSlot(p) /\ InRegion(p)
    /\ phase = "filling" => Cardinality(streak) = slots_in_use
    /\ \A t \in Threads :
          (pc[t] \in AllocRetPCs /\ loc[t].result # NULL) =>
              /\ loc[t].result \notin streak
              /\ OnSlot(loc[t].result)
              /\ InRegion(loc[t].result)

\* N = slot_count allocates in a row have succeeded, over more than one word.
FreshPointersDistinctWitness ==
    /\ num_words > 1
    /\ Cardinality(streak) = num_slots

\* C3: an allocate(size) with 1 <= size <= slot_size that returns null had an
\* instant between its invocation and its return at which every slot was
\* allocated.
NullOnlyWhenFull ==
    \A t \in Threads :
        (pc[t] \in AllocRetPCs /\ SizeFits(loc[t].size) /\ loc[t].result = NULL) =>
            obs[t].ever

\* C4: an allocate(slot_size) made while every slot is allocated returns null
\* and changes neither slots_in_use nor any word.
FullArenaRefuses ==
    \A t \in Threads :
        (pc[t] \in AllocRetPCs /\ obs[t].always) =>
            loc[t].result = NULL /\ ~obs[t].touched

\* An allocate has run from its call to its return statement in a full arena.
FullArenaRefusesWitness ==
    \E t \in Threads :
        pc[t] \in AllocRetPCs /\ obs[t].always /\ loc[t].size = U64(slot_size)

\* C5: a second free of a pointer that no allocate has returned in between
\* changes neither the bitmap nor slots_in_use, in any variant.
DoubleFreeRejected ==
    \A t \in Threads :
        (pc[t] \in FreeRetPCs /\ loc[t].dbl) => ~obs[t].touched

\* C6: a thread running alone that frees a held pointer p in a full arena and
\* then calls allocate(slot_size) gets p, in any variant and for any hint.
FreedSlotComesBack ==
    \A t \in Threads :
        (pc[t] \in AllocRetPCs /\ justFreed # NoJust /\ justFreed[1] = t) =>
            loc[t].result = justFreed[2]

\* The lock-free scan started after the word of p and found p by wrapping.
FreedSlotComesBackWitness ==
    \E t \in Threads :
        /\ variant = "ArenaLockFreeHint"
        /\ pc[t] \in AllocRetPCs
        /\ loc[t].wrapped
        /\ justFreed = <<t, loc[t].result>>

\* ceil(a / d) for 1 <= d < 2^15, without wrap-around.
CeilDiv(a, d) ==
    IF U64Mod(a, d) = 0 THEN U64Div(a, d) ELSE U64Add(U64Div(a, d), U64(1))

\* max(64, ceil(capacity / slot_size) rounded up to a multiple of 64), in words.
SpecifiedWords(cap, ps) ==
    LET w == CeilDiv(CeilDiv(cap, ps), WORD_LENGTH)
    IN  IF w = U64(0) THEN U64(1) ELSE w

\* C7: for any capacity and slot_size >= 1 the constructed arena has
\* slot_count = max(64, ceil(capacity / slot_size) rounded up to a multiple of
\* 64) and region_size = slot_count * slot_size.
SlotCountAsSpecified ==
    (ctor.done /\ ctor.result.ok) =>
        LET r == ctor.result
        IN  /\ r.bitmap.num_words = SpecifiedWords(ctor.capacity, ctor.page_size)
            /\ r.bitmap.num_slots = U64Mul(r.bitmap.num_words, WORD_LENGTH)
            /\ r.capacity = U64Mul(r.bitmap.num_slots, ctor.page_size)

\* C8: immediately after construction every bit of every word is 1 and
\* slots_in_use is 0, in every variant.
FreshArenaAllFree ==
    phase = "constructed" =>
        /\ \A i \in WordIdxs : words[i] = FULLY_FREE
        /\ ZeroBits = 0
        /\ slots_in_use = 0

FreshArenaAllFreeWitness == phase = "constructed" /\ num_words > 1

\* C9: a free of a pointer outside [base, base + region_size), or not on a
\* slot boundary, goes straight to its return and changes no word, no hint
\* and not slots_in_use, in every variant.
BadPointerFreeIsNoOp ==
    \A t \in Threads :
        (/\ pc[t] \in FreePCs
         /\ ~InRegion(loc[t].ptr) \/ Misaligned(loc[t].ptr)) =>
            /\ pc[t] = "f_ret"
            /\ ~obs[t].touched
            /\ ~obs[t].moved

\* A free of a misaligned pointer into a slot that is allocated has returned.
BadPointerFreeIsNoOpWitness ==
    \E t \in Threads :
        /\ pc[t] = "f_ret"
        /\ InRegion(loc[t].ptr) /\ Misaligned(loc[t].ptr)
        /\ loc[t].size = U64(slot_size)
        /\ LET wb == get_word_and_bit_index_from_slot_index(loc[t].start_slot)
           IN  ~TestBit(words[wb[1]], wb[2])

\* C10: when as many allocates have succeeded as held pointers have been
\* freed, and no call is in progress, slots_in_use is what it was when the
\* sequence started.
BalancedCountReturns ==
    (phase = "running" /\ ~misused /\ AllIdle /\ balance = 0) =>
        slots_in_use = count0

\* A free and a successful allocate have both completed.
BalancedCountReturnsWitness ==
    /\ phase = "running" /\ AllIdle /\ balance = 0
    /\ calls >= 2
    /\ held[Rogue] # {}

\* C11: whenever no call is in progress and the callers have freed only
\* pointers they held, slots_in_use is the number of bits that are 0.
CountIsZeroBits ==
    (AllIdle /\ ~misused) => slots_in_use = ZeroBits

\* C12: allocate(0) returns null, and free(ptr, size) with a null ptr or a
\* size of 0 returns, straight away: the call takes no lock and leaves the
\* bitmap, the hint and slots_in_use as they were.
EmptyRequestsAreNoOps ==
    \A t \in Threads :
        /\ (pc[t] # "idle" /\ loc[t].op = "allocate" /\ loc[t].size = U64(0)) =>
               /\ pc[t] = "a_ret" /\ loc[t].result = NULL
               /\ ~obs[t].touched /\ ~obs[t].moved
        /\ (pc[t] # "idle" /\ loc[t].op = "free"
                /\ (loc[t].ptr = NULL \/ loc[t].size = U64(0))) =>
               /\ pc[t] = "f_ret"
               /\ ~obs[t].touched /\ ~obs[t].moved

\* A thread has called free with a pointer it holds and a size of 0.
EmptyRequestsAreNoOpsWitness ==
    \E t \in Threads :
        /\ pc[t] = "f_ret" /\ loc[t].op = "free"
        /\ loc[t].ptr \in held[t] /\ loc[t].size = U64(0)

\* The slot counts allocate_many is asked for.
ManyInputs == {0, 1, 2, WORD_LENGTH, WORD_LENGTH + 1}

\* C13: a request of more than one slot gets nothing: allocate(size) with
\* size > slot_size returns null and changes nothing, free(p, size) with
\* size > slot_size returns at once and changes nothing, so that p's slot
\* stays allocated and slots_in_use stays; allocate_many returns -1 and leaves
\* every word.
MultiSlotRequestsRefused ==
    /\ \A t \in Threads :
           /\ (pc[t] # "idle" /\ loc[t].op = "allocate"
                   /\ U64Less(U64(slot_size), loc[t].size)) =>
                  /\ pc[t] \in {"a_lock", "a_crit"} \cup AllocRetPCs
                  /\ loc[t].slot_idx = NoSlot /\ loc[t].result = NULL
                  /\ ~obs[t].touched /\ ~obs[t].moved
           /\ (pc[t] # "idle" /\ loc[t].op = "free"
                   /\ U64Less(U64(slot_size), loc[t].size)) =>
                  /\ pc[t] = "f_ret"
                  /\ ~obs[t].touched /\ ~obs[t].moved
    /\ \A n \in ManyInputs :
           LET r == BitmapAllocateMany(words, allocation_hint, n)
           IN  r.slot = NoSlot /\ r.words = words /\ r.hint = allocation_hint

\* An allocate of more than one slot is about to return null from an arena
\* that has a free slot.
MultiSlotRequestsRefusedWitness ==
    \E t \in Threads :
        /\ pc[t] = "a_ret" /\ loc[t].op = "allocate"
        /\ U64Less(U64(slot_size), loc[t].size)
        /\ loc[t].result = NULL /\ ~ArenaFull

AllPtrs == {PtrOf(s) : s \in 0 .. (num_slots - 1)}

\* count0 calls succeeded before the threads started together, balance since.
FillDone ==
    /\ \A t \in Threads : pc[t] = "done"
    /\ count0 + balance = num_slots
    /\ UNION {held[t] : t \in Threads} = AllPtrs
    /\ \A t, u \in Threads : t # u => held[t] \cap held[u] = {}

\* C14: when every thread allocates one slot at a time until it gets null and
\* never frees, then from the start of the threads on every thread comes to
\* its end, and at the end the successful calls number slot_count and every
\* slot has been handed out exactly once.
FillTerminates == Running ~> []FillDone

\* Every thread has ended, each with a slot it got while the others ran.
FillTerminatesWitness ==
    /\ \A t \in Threads : pc[t] = "done" /\ held[t] # {}
    /\ ArenaFull

\* C15: a CAS of the lock-free claim fails only when another thread's claim or
\* release changed the word between this thread's read of it and its CAS.
CasFailsOnlyWhenOvertaken ==
    \A t \in Threads : pc[t] = "a_retry" => loc[t].overtaken

\* C16: the counters decide nothing.  Of two runs of the same arena that get
\* the same calls in the same schedule and differ in slots_in_use and
\* cas_retries, the second can take every step the first takes, and the step
\* takes it to the same state but for the counters: to the same words, and to
\* the same pointer or null at every return of allocate.
CountersDecideNothing ==
    [][(twin.mode = "second" /\ twin' = twin) => NextCalls]_vars

\* The second run, whose counter says that every slot is in use, has claimed a
\* slot as the first run did.
CountersDecideNothingWitness ==
    /\ twin.mode = "second" /\ Snapshot = Shifted(twin.to)
    /\ slots_in_use > num_slots
    /\ \E t \in Threads :
          /\ twin.from.pc[t] \in {"a_crit", "a_cas"}
          /\ pc[t] = "a_count" /\ loc[t].result # NULL

\* C17: in the lock-free arenas, when allocate returns a slot whose payload
\* another call wrote before it freed the slot, that write happens before the
\* return: the claiming thread is sure to read it.
PayloadVisibleToClaimer ==
    \A t \in Threads :
        (variant \in LockFreeVariants /\ pc[t] = "a_ret" /\ loc[t].result # NULL) =>
            \A w \in mem.payload : w[1] = loc[t].result => w \in mem.seen[t]

\* A thread is about to return a slot whose payload another thread wrote.
PayloadVisibleToClaimerWitness ==
    \E t \in Threads :
        /\ variant \in LockFreeVariants /\ pc[t] = "a_ret"
        /\ \E w \in mem.payload : w[1] = loc[t].result /\ w[3] # t /\ w \in mem.seen[t]

\* The words in the order the scan visits them, from word `start`.
ScanOrder(start, nw) == [i \in 1 .. nw |-> (start + i - 1) % nw]

\* Where the scan of each bitmap type starts.
ScanStart(v, hint, nw) ==
    IF v \in {"Arena", "ArenaSpinLock", "ArenaLockFreeHint"} THEN hint % nw ELSE 0

\* The reference: in the first word of the scan order that has a bit set,
\* take the highest bit set.
ReferenceClaim(ws, start, nw) ==
    LET order == ScanOrder(start, nw)
        found == {i \in 1 .. nw : ws[order[i]] # {}}
    IN  IF found = {} THEN [slot |-> NoSlot, words |-> ws]
        ELSE LET w == order[CHOOSE i \in found : \A j \in found : i <= j]
                 b == CHOOSE b \in ws[w] : \A c \in ws[w] : c <= b
             IN  [slot |-> w * WORD_LENGTH + b,
                  words |-> [x \in 0 .. (nw - 1) |-> IF x = w THEN ws[x] \ {b} ELSE ws[x]]]

Claimed == loc[Driver].op = "allocate_one"

\* C18: allocate_one takes, in the first word in scan order that has a set
\* bit, the highest set bit, clears that bit and no other, and returns
\* word_idx * 64 + bit_idx, as the reference does.
ClaimMatchesReference ==
    Claimed =>
        LET l   == loc[Driver]
            ref == ReferenceClaim(l.before, ScanStart(variant, l.hint, num_words), num_words)
        IN  l.slot = ref.slot /\ words = ref.words

\* A claim that had to wrap around, in a word that had several slots free.
ClaimMatchesReferenceWitness ==
    /\ Claimed /\ loc[Driver].slot # NoSlot
    /\ LET l == loc[Driver]
           w == get_word_and_bit_index_from_slot_index(l.slot)[1]
       IN  w < ScanStart(variant, l.hint, num_words) /\ Cardinality(l.before[w]) > 1

\* C19: allocate_one of one thread returns -1 exactly when every word is 0.
NoneOnlyWhenAllZero ==
    Claimed =>
        (loc[Driver].slot = NoSlot <=>
            \A i \in WordIdxs : loc[Driver].before[i] = FULLY_ALLOCATED)

\* The only free slot was in a word before the hint, and it was found.
NoneOnlyWhenAllZeroWitness ==
    /\ Claimed /\ loc[Driver].slot # NoSlot /\ ArenaFull
    /\ get_word_and_bit_index_from_slot_index(loc[Driver].slot)[1]
           < ScanStart(variant, loc[Driver].hint, num_words)

Released == loc[Driver].op = "free_slot"

\* C20: free_slot reports an error and leaves the words when slot_idx is out
\* of range or the slot's bit is 1 already, and reports success only when it
\* has changed the bit from 0 to 1.
ReleaseReportsErrors ==
    (Released /\ ~loc[Driver].faulted) =>
        LET l    == loc[Driver]
            wb   == get_word_and_bit_index_from_slot_index(l.slot)
            bad  == l.slot >= num_slots \/ TestBit(l.before[wb[1]], wb[2])
        IN  /\ bad => (l.rc # 0 /\ words = l.before)
            /\ l.rc = 0 => (~bad /\ TestBit(words[wb[1]], wb[2]))

\* The bits <<word_idx, bit_idx>> that are 1 in ws and 0 in ws2.
BitsLost(ws, ws2) == UNION {{w} \X (ws[w] \ ws2[w]) : w \in DOMAIN ws}

BitOf(slot_idx) ==
    LET wb == get_word_and_bit_index_from_slot_index(slot_idx) IN <<wb[1], wb[2]>>

\* Thread t's claim has succeeded in this step, and returns slot_idx.
ClaimedNow(t) == pc[t] \in {"a_crit", "a_cas"} /\ pc'[t] = "a_count"

\* Thread t's call of free_slot has succeeded in this step.
ReleasedNow(t) == pc[t] \in {"f_crit", "f_or"} /\ pc'[t] = "f_count"

\* A step of a call changes at most one bit, and a bit changes only by a
\* claim that returns its slot (1 to 0) or by a release of its slot (0 to 1).
OneSlotFrame ==
    [][Running =>
         LET cleared == BitsLost(words, words')
             set     == BitsLost(words', words)
         IN  /\ Cardinality(cleared \cup set) <= 1
             /\ cleared # {} =>
                    \E t \in Threads : ClaimedNow(t) /\ cleared = {BitOf(loc'[t].slot_idx)}
             /\ set # {} =>
                    \E t \in Threads :
                        /\ pc[t] \in {"f_crit", "f_or"}
                        /\ set = {BitOf(loc[t].start_slot)}]_vars

\* C21: a successful allocate changes exactly one bit, the bit of the slot
\* it returns, from 1 to 0; a successful free changes exactly one bit, the
\* bit of the slot at ptr, from 0 to 1.
OneSlotPerOperation ==
    [][Running =>
         LET cleared == BitsLost(words, words')
             set     == BitsLost(words', words)
         IN  \A t \in Threads :
                 /\ ClaimedNow(t) =>
                        cleared = {BitOf(loc'[t].slot_idx)} /\ set = {}
                 /\ ReleasedNow(t) =>
                        set = {BitOf(loc[t].start_slot)} /\ cleared = {}]_vars

\* Where a thread is between acquiring and releasing the lock.
CritPCs == {"a_crit", "a_count", "a_unlock", "f_crit", "f_count", "f_unlock"}

InCrit(t) == pc[t] \in CritPCs

\* The threads inside the critical section are the holder of the lock, alone.
HolderAlone ==
    /\ \A t \in Threads : InCrit(t) <=> lock = t
    /\ Cardinality({t \in Threads : InCrit(t)}) <= 1

\* C22: in the mutex and spin-lock arenas at most one thread at a time is
\* between acquiring and releasing the lock, and the words, the hint and
\* slots_in_use change only in steps of that thread: the scan-and-clear of
\* allocate, and the check, set and decrement of free, are each inside one
\* critical section.
LockSerializes ==
    [][(variant \in LockedVariants /\ Running) =>
         /\ HolderAlone /\ HolderAlone'
         /\ <<words, allocation_hint, slots_in_use>>' # <<words, allocation_hint, slots_in_use>> =>
                \E t \in Threads :
                    /\ lock = t /\ InCrit(t) /\ lock' = t /\ InCrit(t)'
                    /\ \A u \in Threads \ {t} : pc'[u] = pc[u]
         /\ \A t \in Threads :
                /\ (pc[t] \in {"a_crit", "f_crit"} /\ pc'[t] # pc[t]) =>
                       pc'[t] \in {"a_count", "a_unlock", "f_count", "f_unlock"}
                /\ (pc[t] \in {"a_count", "f_count"} /\ pc'[t] # pc[t]) =>
                       pc'[t] \in {"a_unlock", "f_unlock"} /\ lock' = t]_vars

\* A thread waits for the spin lock while the other, between its claim and
\* its increment, holds it.
LockSerializesWitness ==
    /\ variant = "ArenaSpinLock"
    /\ \E t, u \in Threads : pc[t] = "a_count" /\ pc[u] \in {"a_lock", "f_lock"}

\* Thread t has left the word it was scanning, for another or for return -1.
LeftWord(t) ==
    /\ pc[t] \in {"a_load", "a_retry"}
    /\ \/ pc'[t] = "a_ret"
       \/ pc'[t] = "a_load" /\ pc[t] = "a_retry"
       \/ pc'[t] \in {"a_load", "a_cas"} /\ loc'[t].word_idx # loc[t].word_idx

\* C23: in the lock-free arenas a claim whose CAS on word w fails takes the
\* value the word holds now, tries again on w with the highest set bit of
\* that value, and leaves w for the next word only when the value it observed
\* is 0.
RetriesOnSameWord ==
    [][\A t \in Threads :
         /\ (pc[t] = "a_cas" /\ pc'[t] = "a_retry") =>
                /\ loc'[t].word_idx = loc[t].word_idx
                /\ loc'[t].observed = words[loc[t].word_idx]
         /\ (pc[t] = "a_retry" /\ pc'[t] # "a_retry" /\ loc[t].observed # FULLY_ALLOCATED) =>
                /\ pc'[t] = "a_cas"
                /\ loc'[t].word_idx = loc[t].word_idx
                /\ loc'[t].observed = loc[t].observed
         /\ (pc[t] = "a_cas" /\ pc'[t] = "a_count") =>
                LET top == CHOOSE b \in loc[t].observed : \A c \in loc[t].observed : c <= b
                IN  /\ loc'[t].slot_idx = loc[t].word_idx * WORD_LENGTH + top
                    /\ words'[loc[t].word_idx] = loc[t].observed \ {top}
         /\ LeftWord(t) => loc'[t].observed = FULLY_ALLOCATED]_vars

\* After another thread took the bit it was after, a thread is about to try
\* again on the same word, which still has free slots.
RetriesOnSameWordWitness ==
    \E t \in Threads :
        /\ pc[t] = "a_cas" /\ loc[t].overtaken
        /\ loc[t].observed = words[loc[t].word_idx]
        /\ cas_retries > 0

\* The calls of thread t that have failed a CAS and not yet counted it.
Uncounted == Cardinality({t \in Threads : pc[t] = "a_retry"})

\* C24: cas_retries never decreases; it grows by exactly 1 for each failed
\* CAS and not at all for a successful one, so that with no call in progress
\* it is the number of CAS attempts that have failed since construction; and
\* it is 0 as long as one thread alone has made calls and no CAS has failed
\* spuriously.
RetriesCountFailures ==
    [][/\ cas_retries' >= cas_retries
       /\ cas_retries' = cas_retries + Uncounted - Uncounted' + (tally'.failed - tally.failed)
       /\ \A t \in Threads :
              /\ (pc[t] = "a_cas" /\ pc'[t] = "a_count") =>
                     cas_retries' = cas_retries /\ tally'.failed = tally.failed
              /\ (pc[t] = "a_cas" /\ pc'[t] = "a_retry") => tally'.failed = tally.failed + 1
              /\ (pc[t] = "a_retry" /\ pc'[t] # "a_retry") => cas_retries' = cas_retries + 1
       /\ cas_retries + Uncounted = tally.failed
       /\ AllIdle' => cas_retries' = tally'.failed
       /\ (Cardinality(tally'.callers) <= 1 /\ spurious' = 0) => cas_retries' = 0]_vars

\* Nothing is in progress, CAS attempts have failed, one of them spuriously,
\* and cas_retries has counted them all.
RetriesCountFailuresWitness ==
    /\ AllIdle /\ Running
    /\ tally.failed > spurious /\ spurious > 0
    /\ cas_retries = tally.failed

NextScanStart ==
    IF variant = "ArenaLockFreeHint" THEN HintStart(allocation_hint, num_words)
    ELSE allocation_hint

\* C26: after an allocate_one of Bitmap or BitmapLockFreeHint that has
\* claimed a slot in word w, the next allocate_one starts its scan at w or at
\* (w + 1) mod num_words.
HintLeftNearClaim ==
    (/\ Claimed /\ loc[Driver].slot # NoSlot
     /\ variant \in {"Arena", "ArenaSpinLock", "ArenaLockFreeHint"}) =>
        LET w == get_word_and_bit_index_from_slot_index(loc[Driver].slot)[1]
        IN  NextScanStart \in {w, (w + 1) % num_words}

\* The same for Bitmap alone.
HintLeftNearClaimLocked ==
    (/\ Claimed /\ loc[Driver].slot # NoSlot
     /\ variant \in {"Arena", "ArenaSpinLock"}) =>
        LET w == get_word_and_bit_index_from_slot_index(loc[Driver].slot)[1]
        IN  NextScanStart \in {w, (w + 1) % num_words}

\* C27: an allocate_one of Bitmap that clears the last free bit of word w
\* stores (w + 1) mod num_words in allocation_hint, and one that leaves free
\* bits in w stores w.
HintPassesFullWord ==
    (/\ Claimed /\ loc[Driver].slot # NoSlot
     /\ variant \in {"Arena", "ArenaSpinLock"}) =>
        LET w == get_word_and_bit_index_from_slot_index(loc[Driver].slot)[1]
        IN  allocation_hint =
                IF words[w] = FULLY_ALLOCATED THEN (w + 1) % num_words ELSE w

\* Both arenas have had the same calls, and the last has its result on both.
BothAtResult == twin.mode = "follow" /\ AtResult /\ calls = twin.other.calls

\* C28: for the same calls of one thread, allocate(slot_size) and frees of
\* pointers it holds, ArenaNoHint, ArenaNoHintSpinLock and ArenaLockFree
\* return the same pointer (or null) at every call and have the same words
\* and slots_in_use after it; so do Arena and ArenaSpinLock.
SameCallsSameResults ==
    BothAtResult =>
        LET mine   == loc[Driver]
            theirs == twin.other.loc[Driver]
        IN  /\ mine.op = theirs.op
            /\ mine.op = "allocate" => mine.result = theirs.result
            /\ words = twin.other.words
            /\ slots_in_use = twin.other.slots_in_use
            /\ held = twin.other.held

\* The lock-free arena, after a free and a spurious CAS failure, has returned
\* a pointer, as the mutex arena did.
SameCallsSameResultsWitness ==
    /\ BothAtResult
    /\ variant = "ArenaLockFree" /\ spurious > 0
    /\ calls = MaxSameCalls /\ balance = 1
    /\ loc[Driver].op = "allocate" /\ loc[Driver].result # NULL
    /\ num_words > 1

\* C29: in every reachable state of every arena type, while the threads
\* allocate and free only pointers they hold, 0 <= slots_in_use <= num_slots.
CountInRange ==
    ~misused => (0 <= slots_in_use /\ slots_in_use <= num_slots)

\* C30: in the mutex and spin-lock arenas, in every reachable state in which
\* nobody holds the lock, slots_in_use is the number of bits that are 0,
\* whatever the threads free.
CountIsZeroBitsUnlocked ==
    (variant \in LockedVariants /\ lock = NoThread) => slots_in_use = ZeroBits

\* C31: slots_in_use never wraps: after k successful allocates and no free
\* it is k, for every k up to num_slots, whatever the size of the arena.
CounterNeverWraps ==
    phase \in {"constructed", "filling"} =>
        /\ slots_in_use = ZeroBits
        /\ 0 <= slots_in_use /\ slots_in_use <= num_slots

\* The sum size + slot_size - 1 of the ceiling leaves the 64 bits.
SumWraps(size, slotSize) ==
    U64Less(U64Sub(U64Add(size, U64(slotSize)), U64(1)), size)

\* Sizes above slotSize, up to SIZE_MAX, on both sides of the first size whose
\* sum wraps.
OversizeInputs(slotSize) ==
    {size \in {U64(slotSize + 1), U64(2 * slotSize), U64(2 * slotSize + 1), U64Max}
                 \cup {U64Sub(U64Max, U64(d)) : d \in {1, slotSize - 1, slotSize, slotSize + 1}} :
        U64Less(U64(slotSize), size)}

\* C32: the ceiling (size + slot_size - 1) / slot_size in 64-bit unsigned
\* arithmetic is never 1 for a size above slot_size, the sizes whose sum wraps
\* around included: allocate of such a size returns null and free of such a
\* size does nothing. The ceiling itself is tried, before the first call, on
\* sizes on both sides of the wrap for several slot sizes.
OversizeNeverSingleSlot ==
    /\ \A t \in Threads :
           (pc[t] # "idle" /\ loc[t].op \in {"allocate", "free"}
                /\ U64Less(U64(slot_size), loc[t].size)) =>
               /\ SlotsRequired(loc[t].size, slot_size) # U64(1)
               /\ ~obs[t].touched /\ ~obs[t].moved
               /\ loc[t].op = "allocate" =>
                      /\ ~loc[t].req1
                      /\ loc[t].slot_idx = NoSlot /\ loc[t].result = NULL
                      /\ pc[t] \notin {"a_count", "a_hint", "a_load", "a_cas", "a_retry"}
               /\ loc[t].op = "free" => pc[t] = "f_ret"
    /\ calls = 0 =>
           \A ss \in PageSizeInputs \cup {slot_size} : \A size \in OversizeInputs(ss) :
               SlotsRequired(size, ss) # U64(1)

\* An allocate of SIZE_MAX, whose sum wraps around, is about to return null
\* from an arena that has a free slot, and inputs on both sides of the wrap
\* are among those tried.
OversizeNeverSingleSlotWitness ==
    /\ \E t \in Threads :
           /\ pc[t] \in AllocRetPCs /\ loc[t].op = "allocate"
           /\ loc[t].size = U64Max /\ SumWraps(loc[t].size, slot_size)
           /\ loc[t].result = NULL /\ ~ArenaFull
    /\ \A ss \in PageSizeInputs \ {1} :
           /\ \E size \in OversizeInputs(ss) : SumWraps(size, ss)
           /\ \E size \in OversizeInputs(ss) : ~SumWraps(size, ss)

\* How far a thread is inside its critical section.
CritRank(p) ==
    CASE p \in {"a_crit", "f_crit"}     -> 1
      [] p \in {"a_count", "f_count"}   -> 2
      [] p \in {"a_unlock", "f_unlock"} -> 3
      [] OTHER                          -> 4

\* C33: in ArenaSpinLock and ArenaNoHintSpinLock the flag is set exactly while
\* a thread is between its test_and_set and its clear; every call that set
\* it clears it in the step in which it returns, on every path; the flag is
\* clear whenever no call is in progress; and a thread never waits on a flag
\* that nobody is about to clear: the holder is inside its critical section
\* and each of its steps brings it nearer to the clear.
SpinLockReleased ==
    [][(variant \in SpinVariants /\ Running) =>
         /\ \A t \in Threads : lock = t <=> InCrit(t)
         /\ AllIdle => lock = NoThread
         /\ lock # NoThread => lock \in Threads /\ InCrit(lock)
         /\ \A t \in Threads :
                /\ (lock = t /\ pc'[t] # pc[t]) =>
                       /\ CritRank(pc'[t]) > CritRank(pc[t])
                       /\ pc'[t] = "idle" <=> pc[t] \in {"a_unlock", "f_unlock"}
                       /\ pc'[t] = "idle" <=> lock' = NoThread
                /\ (pc[t] # "idle" /\ pc'[t] = "idle") => lock' # t
                /\ (lock # t /\ lock' = t) =>
                       lock = NoThread /\ pc[t] \in {"a_lock", "f_lock"}]_vars

\* A free rejected as a double free holds the spin lock, about to clear it,
\* while the other thread spins.
SpinLockReleasedWitness ==
    /\ variant \in SpinVariants /\ Running
    /\ \E t, u \in Threads :
           /\ pc[t] = "f_unlock" /\ lock = t /\ loc[t].dbl /\ ~obs[t].touched
           /\ pc[u] \in {"a_lock", "f_lock"}

\* The bitmap is the locked Bitmap with the scan hint.
HintedBitmap == variant \in {"Arena", "ArenaSpinLock"}

\* C34: in the locked hinted Bitmap free_slot(s), s a slot of the bitmap,
\* leaves the hint at the word of s, and an allocate_one that follows it
\* directly returns the highest free bit of that word and clears it, whatever
\* the lower-indexed words hold.
ClaimAfterFreeSameWord ==
    [][(HintedBitmap /\ phase = "bitmap" /\ loc[Driver].op = "free_slot"
            /\ loc[Driver].slot < num_slots) =>
         LET w == loc[Driver].slot \div WORD_LENGTH
         IN  /\ allocation_hint = w
             /\ loc'[Driver].op = "allocate_one" =>
                    /\ loc'[Driver].slot = w * WORD_LENGTH + MaxOf(words[w])
                    /\ words' = [words EXCEPT ![w] = @ \ {MaxOf(words[w])}]]_vars

\* An allocate_one straight after a free_slot in a word that is not the
\* first has returned the highest free bit of that word, while word 0 had
\* free slots.
ClaimAfterFreeSameWordWitness ==
    /\ HintedBitmap /\ phase = "bitmap" /\ calls = 2
    /\ loc[Driver].op = "allocate_one"
    /\ \E w \in 1 .. (num_words - 1) :
           /\ loc[Driver].before[w] = {0, 5, 40}
           /\ loc[Driver].slot = w * WORD_LENGTH + 40
           /\ loc[Driver].before[0] # FULLY_ALLOCATED

\* C35: in the locked hinted Bitmap allocation_hint is a word index of the
\* bitmap, 0 <= allocation_hint < num_words, after the constructor and after
\* every sequence of allocate_one calls and of free_slot calls with slot
\* indexes below num_slots, so that the scan reads words[allocation_hint]
\* inside the bitmap.
HintIsWordIndex ==
    (HintedBitmap /\ phase \in {"bitmap", "running"}) =>
        /\ 0 <= allocation_hint /\ allocation_hint < num_words
        /\ allocation_hint \in DOMAIN words
        /\ BitmapCtor(U64(num_slots)).allocation_hint \in WordIdxs

\* A free_slot of the last slot of a bitmap of several words, after a claim,
\* has left the hint at the last word.
HintIsWordIndexWitness ==
    /\ HintedBitmap /\ phase = "bitmap" /\ calls = 2 /\ num_words > 1
    /\ loc[Driver].op = "free_slot" /\ loc[Driver].slot = num_slots - 1
    /\ \E w \in WordIdxs : loc[Driver].before[w] \notin WordInputs
    /\ allocation_hint = num_words - 1

\* C36: the conversions between a slot index and its word and bit are inverse
\* to each other in every bitmap type: for every slot s of the bitmap the word
\* and bit of s are (s div 64, s mod 64), for every word w of the bitmap and
\* every bit b in [0, 63] the slot of (w, b) is w * 64 + b, and converting
\* either way and back gives what one started from; allocate_one returns the
\* slot of the bit it cleared and free_slot sets the bit of the slot it got.
ConversionsInverse ==
    /\ (phase = "bitmap" /\ calls = 0) =>
           /\ \A s \in 0 .. (num_slots - 1) :
                  LET wb == get_word_and_bit_index_from_slot_index(s)
                  IN  /\ wb = <<s \div WORD_LENGTH, s % WORD_LENGTH>>
                      /\ wb[1] \in WordIdxs /\ wb[2] \in 0 .. MAX_IDX
                      /\ get_slot_index_from_word_and_bit_index(wb[1], wb[2]) = s
           /\ \A w \in WordIdxs : \A b \in 0 .. MAX_IDX :
                  LET s == get_slot_index_from_word_and_bit_index(w, b)
                  IN  /\ s = w * WORD_LENGTH + b
                      /\ s \in 0 .. (num_slots - 1)
                      /\ get_word_and_bit_index_from_slot_index(s) = <<w, b>>
    /\ (phase = "bitmap" /\ Claimed /\ loc[Driver].slot # NoSlot) =>
           LET wb == get_word_and_bit_index_from_slot_index(loc[Driver].slot)
           IN  /\ loc[Driver].slot \in 0 .. (num_slots - 1)
               /\ words = [loc[Driver].before EXCEPT ![wb[1]] = @ \ {wb[2]}]
               /\ wb[2] \in loc[Driver].before[wb[1]]
    /\ (phase = "bitmap" /\ Released) =>
           LET s == loc[Driver].slot
           IN  words = [loc[Driver].before EXCEPT
                          ![s \div WORD_LENGTH] = @ \cup {s % WORD_LENGTH}]

\* An allocate_one has returned slot 2 * 64 + 40 of a bitmap of 3 words, the
\* bit it cleared being bit 40 of word 2.
ConversionsInverseWitness ==
    /\ phase = "bitmap" /\ Claimed /\ num_words = 3
    /\ loc[Driver].slot = 2 * WORD_LENGTH + 40
    /\ loc[Driver].before[2] = {5, 40} /\ words[2] = {5}

\* ------------------------------------------------------------------------
\* bitmap.cpp: the standalone Bitmap, its constructor and its two conversions
\* ------------------------------------------------------------------------

MaxStandaloneWords == 3

\* explicit Bitmap(uint32_t num_slots): exit(EXIT_FAILURE) unless num_slots is
\* a multiple of 64; words.assign(num_words, (uint64_t)1), the word whose only
\* set bit is bit 0.
StandaloneBitmapCtor(slots) ==
    IF slots % WORD_LENGTH # 0
    THEN [ok |-> FALSE]
    ELSE [ok |-> TRUE,
          num_slots |-> slots,
          num_words |-> slots \div WORD_LENGTH,
          fill |-> {0}]

\* Bitmap::get_word_index_from_slot_index of bitmap.cpp:
\* {slot_idx >> WORD_SHIFT, slot_idx & WORD_MASK}
StandaloneWordIndexFromSlotIndex(slot_idx) ==
    <<ShiftRight(slot_idx, WORD_SHIFT), BitAnd(slot_idx, WORD_MASK)>>

\* Bitmap::get_slot_index_from_word_and_bit_index of bitmap.cpp:
\* word_idx >> WORD_SHIFT | bit_idx
StandaloneSlotIndexFromWordAndBitIndex(word_idx, bit_idx) ==
    BitOr(ShiftRight(word_idx, WORD_SHIFT), bit_idx)

\* The slot counts given to the constructor: whole words, and one that is not.
StandaloneSlotInputs ==
    {k * WORD_LENGTH : k \in 1 .. MaxStandaloneWords} \cup {WORD_LENGTH + 1}

\* Before the constructor runs.
InitStandalone ==
    \E n \in StandaloneSlotInputs :
        /\ variant = "Bitmap"
        /\ ctor = [num_slots |-> n, done |-> FALSE, result |-> NotConstructed]
        /\ base = NULL
        /\ capacity = 0
        /\ slot_size = 0
        /\ num_slots = n
        /\ num_words = 0
        /\ words = <<>>
        /\ allocation_hint = 0
        /\ cas_retries = 0
        /\ slots_in_use = 0
        /\ lock = NoThread
        /\ pc = [t \in Threads |-> "idle"]
        /\ loc = [t \in Threads |-> IdleLoc]
        /\ held = [t \in Threads |-> {}]
        /\ calls = 0
        /\ spurious = 0
        /\ phase = "standalone"
        /\ misused = FALSE
        /\ streak = {}
        /\ count0 = 0
        /\ justFreed = NoJust
        /\ freedPtrs = {}
        /\ balance = 0
        /\ obs = [t \in Threads |-> NoObs]
        /\ twin = NoTwin
        /\ mem = NoMem(0)
        /\ tally = NoTally

\* Bitmap(num_slots) of bitmap.cpp; the process exits when it fails.
StandaloneConstruct ==
    /\ phase = "standalone" /\ ~ctor.done
    /\ LET r == StandaloneBitmapCtor(ctor.num_slots)
       IN  /\ ctor' = [ctor EXCEPT !.done = TRUE, !.result = r]
           /\ phase' = IF r.ok THEN "standalone" ELSE "exited"
           /\ num_words' = IF r.ok THEN r.num_words ELSE 0
           /\ words' = IF r.ok THEN [i \in 0 .. (r.num_words - 1) |-> r.fill] ELSE words
    /\ UNCHANGED <<variant, base, capacity, slot_size, num_slots, twin, tally, mem,
                   allocation_hint, cas_retries, slots_in_use, lock, pc, loc, held,
                   calls, spurious, misused, streak, count0, justFreed, freedPtrs,
                   balance, obs>>

StandaloneUnchanged ==
    UNCHANGED <<arenaVars, tally, mem, words, allocation_hint, cas_retries, slots_in_use,
                lock, pc, held, calls, spurious, phase, misused, streak, count0,
                justFreed, freedPtrs, balance, obs>>

\* get_word_index_from_slot_index(slot_idx) on the constructed bitmap.
StandaloneToWordAndBit(slot_idx) ==
    /\ phase = "standalone" /\ ctor.done
    /\ loc' = [loc EXCEPT ![Driver] =
                 [op |-> "get_word_index_from_slot_index", slot_idx |-> slot_idx,
                  result |-> StandaloneWordIndexFromSlotIndex(slot_idx)]]
    /\ StandaloneUnchanged

\* get_slot_index_from_word_and_bit_index(word_idx, bit_idx) on the
\* constructed bitmap.
StandaloneToSlot(word_idx, bit_idx) ==
    /\ phase = "standalone" /\ ctor.done
    /\ loc' = [loc EXCEPT ![Driver] =
                 [op |-> "get_slot_index_from_word_and_bit_index",
                  word_idx |-> word_idx, bit_idx |-> bit_idx,
                  result |-> StandaloneSlotIndexFromWordAndBitIndex(word_idx, bit_idx)]]
    /\ StandaloneUnchanged

NextStandalone ==
    \/ StandaloneConstruct
    \/ \E slot_idx \in 0 .. (num_slots - 1) : StandaloneToWordAndBit(slot_idx)
    \/ \E word_idx \in 0 .. (num_words - 1), bit_idx \in 0 .. MAX_IDX :
           StandaloneToSlot(word_idx, bit_idx)

SpecStandalone == InitStandalone /\ [][NextStandalone]_vars

\* The standalone bitmap is constructed.
StandaloneConstructed == phase = "standalone" /\ ctor.done

\* C37: the standalone Bitmap of bitmap.cpp follows the conventions of
\* bitmap.h: after its constructor every word has all 64 bits set, every slot
\* free, and its get_slot_index_from_word_and_bit_index(w, b) returns
\* w * 64 + b, which get_word_index_from_slot_index takes back to (w, b).
StandaloneFollowsConventions ==
    /\ StandaloneConstructed =>
           /\ \A i \in DOMAIN words : words[i] = FULLY_FREE
           /\ words = [i \in 0 .. (num_words - 1) |-> BitmapCtor(U64(num_slots)).fill]
    /\ (StandaloneConstructed
            /\ loc[Driver].op = "get_slot_index_from_word_and_bit_index") =>
           LET l == loc[Driver]
           IN  /\ l.result = l.word_idx * WORD_LENGTH + l.bit_idx
               /\ l.result = get_slot_index_from_word_and_bit_index(l.word_idx, l.bit_idx)
               /\ StandaloneWordIndexFromSlotIndex(l.result) = <<l.word_idx, l.bit_idx>>

\* What bitmap.cpp shares with bitmap.h: get_word_index_from_slot_index is
\* the conversion from a slot to its word and bit.
StandaloneWordIndexAsInHeader ==
    (StandaloneConstructed /\ loc[Driver].op = "get_word_index_from_slot_index") =>
        LET l == loc[Driver]
        IN  /\ l.result = <<l.slot_idx \div WORD_LENGTH, l.slot_idx % WORD_LENGTH>>
            /\ l.result = get_word_and_bit_index_from_slot_index(l.slot_idx)

\* The constructor alone: every word all free.
StandaloneAllFree ==
    StandaloneConstructed => \A i \in DOMAIN words : words[i] = FULLY_FREE

\* The conversion alone: the slot of (w, b) is w * 64 + b.
StandaloneSlotIndexIsShiftLeft ==
    (StandaloneConstructed /\ loc[Driver].op = "get_slot_index_from_word_and_bit_index") =>
        loc[Driver].result = loc[Driver].word_idx * WORD_LENGTH + loc[Driver].bit_idx

====
